---- MODULE Spec2Model ----
(***************************************************************************)
(* Verification model of the inktty rendering pipeline: the terminal cell  *)
(* Matrix (dirty tracking and commit), the MemoryDisplay (lock counter,    *)
(* layers, composition), the RectangleMerger, the e-paper update emulation *)
(* and the two-pass MatrixRenderer.                                        *)
(***************************************************************************)
EXTENDS Integers, Sequences, FiniteSets, TLC

(***************************************************************************)
(* Bounds of the model                                                      *)
(***************************************************************************)
\* Matrix calls other than commit and buffer toggles in one behaviour
MaxOps == 2
\* Matrix::commit calls in one behaviour
MaxCommits == 2
\* Matrix::set_alternative_buffer_active calls in one behaviour
MaxToggles == 2
\* Matrix calls other than commit and buffer toggles in one behaviour of
\* the alternative buffer specification
MaxAltOps == 2
\* Matrix calls in one behaviour of the scroll specification
MaxScrollOps == 3
\* Matrix calls in one behaviour of the cursor specification
MaxCursorOps == 3
\* Matrix::write calls in one behaviour of the write specification
MaxWrites == 6
\* number of Display::lock calls of a run
MaxLocks == 2
\* number of drawing calls (fill, blit) of a run
MaxDraws == 2
\* number of Display::commit calls of a run
MaxRequests == 1
\* size of the surface the display backend hands out
SurfW == 2
SurfH == 2
\* number of RectangleMerger::insert calls of a run
MaxInserts == 4
\* number of RectangleMerger::merge and reset calls of a run
MaxMerges == 2
\* number of e-paper updates of a region in a run
MaxUpdates == 2
\* draw passes of the renderer
MaxDrawPasses == 3

(***************************************************************************)
(* Geometry (utils/geometry.hpp)                                            *)
(***************************************************************************)
IntMax == 2147483647
IntMin == (-IntMax) - 1

Min(a, b) == IF a < b THEN a ELSE b
Max(a, b) == IF a > b THEN a ELSE b

Point(x, y) == [x |-> x, y |-> y]
Rect(x0, y0, x1, y1) == [x0 |-> x0, y0 |-> y0, x1 |-> x1, y1 |-> y1]

\* Rect::Rect(): the invalid rectangle
RectInvalid == Rect(IntMax, IntMax, IntMin, IntMin)

RectValid(r) == (r.x0 <= r.x1) /\ (r.y0 <= r.y1)

\* Rect operator+(const Rect &, const Point &)
Translate(r, dx, dy) == Rect(r.x0 + dx, r.y0 + dy, r.x1 + dx, r.y1 + dy)

(***************************************************************************)
(* Matrix (term/matrix.hpp, term/matrix.cpp)                                *)
(***************************************************************************)
\* size the Matrix is constructed with
MatRows == 2
MatCols == 3

DefaultFg == 16250871
DefaultBg == 0
AltFg == 16711680

\* Style::Style()
Style0 ==
  [fg |-> DefaultFg, bg |-> DefaultBg, concealed |-> FALSE, bold |-> FALSE,
   italic |-> FALSE, strikethrough |-> FALSE, inverse |-> FALSE,
   underline |-> 0]

\* Matrix::Cell::Cell()
Cell0 == [glyph |-> 0, style |-> Style0, cursor |-> FALSE, dirty |-> TRUE]

\* styles and glyphs the terminal driver hands to the Matrix
StyleAltFg == [Style0 EXCEPT !.fg = AltFg]
StyleInverse == [Style0 EXCEPT !.inverse = TRUE]

\* a glyph and a style as the terminal driver hands them to the Matrix
Pen(glyph, style) == [glyph |-> glyph, style |-> style]

\* a cell that counts as invisible only when it is concealed
invisible_concealed_only(c) == c.style.concealed

\* Matrix::Cell::invisible
invisible(c) ==
  IF c.style.concealed THEN TRUE
  ELSE IF c.style.strikethrough \/ c.style.underline # 0 THEN FALSE
  ELSE IF c.glyph = 0 \/ c.glyph = 32 THEN TRUE
  ELSE FALSE

\* a comparison that reports every dirty cell
needs_update_dirty(c, old) == c.dirty

\* Matrix::Cell::needs_update
needs_update(c, old) ==
  LET inverse == (c.cursor # c.style.inverse)
      inverse_old == (old.cursor # old.style.inverse)
      need_check_fg == ~(invisible(c) /\ invisible(old))
  IN IF ~c.dirty THEN FALSE
     ELSE IF inverse # inverse_old THEN TRUE
     ELSE IF need_check_fg /\ c.glyph # old.glyph THEN TRUE
     ELSE IF need_check_fg /\ ~inverse /\ c.style.fg # old.style.fg THEN TRUE
     ELSE IF need_check_fg /\ inverse /\ c.style.bg # old.style.bg THEN TRUE
     ELSE IF need_check_fg /\
             (c.style.bold # old.style.bold \/
              c.style.italic # old.style.italic \/
              c.style.strikethrough # old.style.strikethrough \/
              c.style.underline # old.style.underline) THEN TRUE
     ELSE IF ~inverse THEN c.style.bg # old.style.bg
     ELSE c.style.fg # old.style.fg

valid(p, size) ==
  (p.x >= 1) /\ (p.y >= 1) /\ (p.x <= size.x) /\ (p.y <= size.y)

\* update bounds that never grow
extend_update_bounds_none(b, p) == b

\* Matrix::extend_update_bounds
extend_update_bounds(b, p) ==
  Rect(Min(b.x0, p.x), Min(b.y0, p.y), Max(b.x1, p.x), Max(b.y1, p.y))

\* Rect::clipx / clipy with border = true
clip_border(v, lo, hi) == IF v < lo THEN lo ELSE IF v > hi THEN hi ELSE v

\* a cell array of the given geometry holding default cells
BlankCells(size) == [y \in 1..size.y |-> [x \in 1..size.x |-> Cell0]]

\* Matrix::set that forgets to grow the update bounds
MSet_stale_bounds(cells, bounds, size, glyph, style, pos) ==
  IF ~valid(pos, size) THEN [cells |-> cells, bounds |-> bounds]
  ELSE LET c == cells[pos.y][pos.x]
       IN IF glyph # c.glyph \/ style # c.style
          THEN [cells |-> [cells EXCEPT ![pos.y][pos.x] =
                             [c EXCEPT !.glyph = glyph, !.style = style,
                                       !.dirty = TRUE]],
                bounds |-> bounds]
          ELSE [cells |-> cells, bounds |-> bounds]

\* Matrix::set on the cell buffer and the update bounds
MSet(cells, bounds, size, glyph, style, pos) ==
  IF ~valid(pos, size) THEN [cells |-> cells, bounds |-> bounds]
  ELSE LET c == cells[pos.y][pos.x]
       IN IF glyph # c.glyph \/ style # c.style
          THEN [cells |-> [cells EXCEPT ![pos.y][pos.x] =
                             [c EXCEPT !.glyph = glyph, !.style = style,
                                       !.dirty = TRUE]],
                bounds |-> extend_update_bounds(bounds, pos)]
          ELSE [cells |-> cells, bounds |-> bounds]

\* the positions a loop "for (v = a; dir * v <= dir * b; v += dir)" visits
RECURSIVE Steps(_, _, _)
Steps(a, b, dir) ==
  IF dir * a <= dir * b THEN <<a>> \o Steps(a + dir, b, dir) ELSE <<>>

\* the points of the reading-order double loop "for y in ys: for x in xs"
Grid(xs, ys) ==
  [i \in 1..(Len(xs) * Len(ys)) |->
     Point(xs[((i - 1) % Len(xs)) + 1], ys[((i - 1) \div Len(xs)) + 1])]

\* Matrix::fill: the cells set, in reading order
fill_targets(size, from, to) ==
  LET RECURSIVE Rows(_)
      Rows(row) ==
        IF row > to.y THEN <<>>
        ELSE LET col0 == IF row = from.y THEN from.x ELSE 1
                 col1 == IF row = to.y THEN to.x ELSE size.x
             IN Grid(Steps(col0, col1, 1), <<row>>) \o Rows(row + 1)
  IN Rows(from.y)

RECURSIVE MSetAll(_, _, _, _, _, _)
MSetAll(cells, bounds, size, glyph, style, targets) ==
  IF targets = <<>> THEN [cells |-> cells, bounds |-> bounds]
  ELSE LET m == MSet(cells, bounds, size, glyph, style, Head(targets))
       IN MSetAll(m.cells, m.bounds, size, glyph, style, Tail(targets))

\* a scroll that fills with default cells whatever the style
scroll_blank_default(glyph, style) == Cell0

\* Matrix::scroll: the cell "Cell c; c.style = style" a target gets whose
\* source is outside the rectangle; the glyph argument is not used
scroll_blank(glyph, style) == [Cell0 EXCEPT !.style = style]

\* Matrix::scroll(glyph, style, r, downward, rightward): the in-place copy
\* loop, one target cell after the other in the order the code visits them
RECURSIVE scroll_copy(_, _, _, _, _, _, _)
scroll_copy(cells, glyph, style, r, downward, rightward, targets) ==
  IF targets = <<>> THEN cells
  ELSE LET t == Head(targets)
           y_src == t.y + downward
           x_src == t.x + rightward
           blank == scroll_blank(glyph, style)
           c_tar ==
             IF y_src < r.y0 \/ y_src > r.y1 THEN blank
             ELSE IF x_src < r.x0 \/ x_src > r.x1 THEN blank
             ELSE [cells[y_src][x_src] EXCEPT !.dirty = TRUE,
                                              !.cursor = FALSE]
       IN scroll_copy([cells EXCEPT ![t.y][t.x] = c_tar], glyph, style, r,
                      downward, rightward, Tail(targets))

\* Matrix::scroll visiting the cells in reading order whatever the direction
scroll_targets_forward(r, downward, rightward) ==
  Grid(Steps(r.x0, r.x1, 1), Steps(r.y0, r.y1, 1))

scroll_targets(r, downward, rightward) ==
  LET x0 == IF rightward >= 0 THEN r.x0 ELSE r.x1
      x1 == IF rightward >= 0 THEN r.x1 ELSE r.x0
      y0 == IF downward >= 0 THEN r.y0 ELSE r.y1
      y1 == IF downward >= 0 THEN r.y1 ELSE r.y0
      dir_x == IF x1 >= x0 THEN 1 ELSE -1
      dir_y == IF y1 >= y0 THEN 1 ELSE -1
  IN Grid(Steps(x0, x1, dir_x), Steps(y0, y1, dir_y))

\* Matrix::scroll(int n) of the line-wise matrix, used by move_rel; the rows
\* are visited upwards from row 1 (n > 0, at least two rows)
RECURSIVE scroll_lines_copy(_, _, _, _)
scroll_lines_copy(cells, size, n, rows) ==
  IF rows = <<>> THEN cells
  ELSE LET y_tar == Head(rows)
           y_src == y_tar + n
           row ==
             IF y_src < 1 \/ y_src > size.y
             THEN [x \in DOMAIN cells[y_tar] |-> Cell0]
             ELSE [x \in DOMAIN cells[y_tar] |->
                     IF x <= size.x
                     THEN [cells[y_src][x] EXCEPT !.dirty = TRUE]
                     ELSE cells[y_tar][x]]
       IN scroll_lines_copy([cells EXCEPT ![y_tar] = row], size, n,
                            Tail(rows))

InRect(b, x, y) == b.x0 <= x /\ x <= b.x1 /\ b.y0 <= y /\ y <= b.y1

\* the cells Matrix::commit scans, in scan order
scan_targets(b) ==
  IF RectValid(b)
  THEN Grid(Steps(b.x0, b.x1, 1), Steps(b.y0, b.y1, 1))
  ELSE <<>>

\* Matrix::commit: the cursor flags, the scan of the update bounds, the
\* update list and the new "old" buffer
commit_result(cells, old, bounds, size, pos, pos_old, vis, vis_old) ==
  LET off == vis_old /\ valid(pos_old, size)
      c1 == IF off
            THEN [cells EXCEPT ![pos_old.y][pos_old.x] =
                    [@ EXCEPT !.cursor = FALSE, !.dirty = TRUE]]
            ELSE cells
      b1 == IF off THEN extend_update_bounds(bounds, pos_old) ELSE bounds
      on == vis /\ valid(pos, size)
      c2 == IF on
            THEN [c1 EXCEPT ![pos.y][pos.x] =
                    [@ EXCEPT !.cursor = TRUE, !.dirty = TRUE]]
            ELSE c1
      b2 == IF on THEN extend_update_bounds(b1, pos) ELSE b1
      Need(p) == needs_update(c2[p.y][p.x], old[p.y][p.x])
      hits == SelectSeq(scan_targets(b2), Need)
  IN [scanned |-> c2,
      bounds |-> b2,
      updates |-> [i \in 1..Len(hits) |->
                     [pos |-> hits[i],
                      current |-> c2[hits[i].y][hits[i].x],
                      old |-> old[hits[i].y][hits[i].x]]],
      cells |-> [y \in DOMAIN c2 |-> [x \in DOMAIN c2[y] |->
                   IF InRect(b2, x, y)
                   THEN [c2[y][x] EXCEPT !.dirty = FALSE]
                   ELSE c2[y][x]]],
      old |-> [y \in DOMAIN old |-> [x \in DOMAIN old[y] |->
                 IF InRect(b2, x, y)
                 THEN [c2[y][x] EXCEPT !.dirty = FALSE]
                 ELSE old[y][x]]]]

(***************************************************************************)
(* State                                                                    *)
(***************************************************************************)
VARIABLES
  \* Matrix
  m_cells, m_cells_alt, m_cells_old, m_pos, m_pos_last, m_pos_old, m_size,
  m_cursor_visible, m_cursor_visible_old, m_alternative_buffer_active,
  m_update_bounds,
  \* the update list the last Matrix::commit returned
  updates,
  \* history of the Matrix calls: number of calls, the last two calls and the
  \* current buffer before each of them, the calls since the last commit
  hist,
  \* history of the commits: the current buffer at the end of the last two
  \* commits, the buffer as the last commit scanned it, the buffer
  \* toggles since the last commit, the calls between the last two commits
  \* and the cursor of the commit before
  chist

matrix_vars ==
  <<m_cells, m_cells_alt, m_cells_old, m_pos, m_pos_last, m_pos_old, m_size,
    m_cursor_visible, m_cursor_visible_old, m_alternative_buffer_active,
    m_update_bounds, updates, hist, chist>>

VARIABLES
  \* MemoryDisplay::Impl
  d_locked, d_width, d_height, d_stride, d_display_rect, d_surf_rect,
  d_commit_requests, d_composite, d_layer_bg, d_layer_presentation,
  \* std::recursive_mutex m_mutex: the owning thread (0: none) and the
  \* recursion count
  d_mutex,
  \* the threads using the display: "ready", or "waiting" inside
  \* m_mutex.lock()
  d_pc,
  \* the backend hooks called so far, in order
  d_hooks,
  \* history of the display calls: calls per kind, the last call, per thread
  \* the lock() calls not yet matched by an unlock(), and whether a thread
  \* called unlock() on a display another thread had locked
  d_hist

display_vars ==
  <<d_locked, d_width, d_height, d_stride, d_display_rect, d_surf_rect,
    d_commit_requests, d_composite, d_layer_bg, d_layer_presentation,
    d_mutex, d_pc, d_hooks, d_hist>>

VARIABLES
  \* RectangleMerger::Impl::m_rects
  rm_rects,
  \* history of the merger calls: calls per kind, the last call, the
  \* rectangles inserted since the last reset, for each rectangle of the list
  \* the inserted rectangles (by number) it has grown from, and the merge
  \* steps of the last call
  rm_hist

merger_vars == <<rm_rects, rm_hist>>

VARIABLES
  \* epaper_emulation::update on a region of one pixel: the update mode, the
  \* pixel of the source buffer and the pixel of the target buffer in the
  \* colour layout of the target
  ep_mode, ep_src, ep_tar,
  \* history of the updates: their number, and the target pixel before the
  \* last one
  ep_hist

epaper_vars == <<ep_mode, ep_src, ep_tar, ep_hist>>

VARIABLES
  \* MatrixRenderer::Impl: m_cells (the metadata of the cells as they are on
  \* screen) and m_update_bounds, in the renderer's coordinates from 0
  r_cells, r_update_bounds,
  \* m_bounds, m_orientation, m_cols, m_rows, m_pad_x, m_pad_y, m_cell_w,
  \* m_cell_h and m_needs_geometry_update
  r_geometry,
  \* history of the draw passes: their number, the last call, the time the
  \* draw passes were told has elapsed since the first draw pass that
  \* followed the last Matrix call (-1: none has yet), the cells that were
  \* in low quality when the last draw pass started, and whether that pass
  \* went on to draw
  r_hist

renderer_vars == <<r_cells, r_update_bounds, r_geometry, r_hist>>

VARIABLES
  \* FbDevDisplay: the revision of the backend, m_type and the static
  \* markers of the update function
  fb_dev,
  \* the bytes of the pixels of the mapped frame buffer (m_buf_offs)
  fb_buf,
  \* the ioctl calls made on m_fb_fd, in order
  fb_ioctl,
  \* history of the backend: the do_unlock calls so far
  fb_hist

fbdev_vars == <<fb_dev, fb_buf, fb_ioctl, fb_hist>>

VARIABLES
  \* UTF8Decoder: m_cp, m_cp_buf (its first m_cp_buf_cur entries) and
  \* m_n_continuation_bytes
  u8_dec,
  \* history of the decoder: the number of bytes fed and the last of them,
  \* the code points whose encodings were fed, the bytes of the last of them
  \* still to be fed, whether every byte fed so far belonged to these
  \* encodings, the Status of the last feed() and the code point reported
  \* before it
  u8_hist

utf8_vars == <<u8_dec, u8_hist>>

VARIABLES
  \* Inktty::Impl::run: the position in the loop body (pc), the microseconds
  \* from m_t_last_draw to the clock (elapsed), m_needs_redraw, done and
  \* timeout; its history: whether draw() has been called since the last
  \* child output (drew), the dt given to that draw() (dt) and the
  \* milliseconds from the draw() before it to that call (since)
  loop

VARIABLES
  \* SDLBackend::Impl: where the thread that calls lock() and unlock() is
  \* (main), the events pushed to SDL and not yet taken by the GUI thread
  \* (queue), m_locked, whether m_surf and m_pixels are set, the events
  \* forwarded to m_event_queue (forwarded), the lock cycles begun (cycles)
  \* and the input events pushed (inputs)
  sdl

\* what the Matrix does not touch
not_matrix_vars ==
  <<display_vars, merger_vars, epaper_vars, fbdev_vars, utf8_vars, r_cells,
    r_update_bounds, r_geometry, loop, sdl>>

\* what the display does not touch
not_display_vars ==
  <<matrix_vars, merger_vars, epaper_vars, fbdev_vars, utf8_vars,
    renderer_vars, loop, sdl>>

\* what the rectangle merger does not touch
not_merger_vars ==
  <<matrix_vars, display_vars, epaper_vars, fbdev_vars, utf8_vars,
    renderer_vars, loop, sdl>>

\* what the e-paper emulation does not touch
not_epaper_vars ==
  <<matrix_vars, display_vars, merger_vars, fbdev_vars, utf8_vars,
    renderer_vars, loop, sdl>>

\* what the frame buffer backend does not touch
not_fbdev_vars ==
  <<matrix_vars, display_vars, merger_vars, epaper_vars, utf8_vars,
    renderer_vars, loop, sdl>>

\* what the UTF-8 decoder does not touch
not_utf8_vars ==
  <<matrix_vars, display_vars, merger_vars, epaper_vars, fbdev_vars,
    renderer_vars, loop, sdl>>

vars ==
  <<matrix_vars, display_vars, merger_vars, epaper_vars, fbdev_vars,
    utf8_vars, renderer_vars, loop, sdl>>

NoCall == [op |-> "none"]

\* Matrix::Matrix(rows, cols) followed by reset()
MatrixConstructed(rows, cols) ==
  /\ m_size = Point(cols, rows)
  /\ m_cells = BlankCells(Point(cols, rows))
  /\ m_cells_alt = BlankCells(Point(cols, rows))
  /\ m_cells_old = BlankCells(Point(cols, rows))
  /\ m_pos = Point(1, 1)
  /\ m_pos_last = Point(1, 1)
  /\ m_pos_old = Point(1, 1)
  /\ m_cursor_visible = TRUE
  /\ m_cursor_visible_old = FALSE
  /\ m_alternative_buffer_active = FALSE
  /\ m_update_bounds = RectInvalid
  /\ updates = <<>>
  /\ hist = [n |-> 0, commits |-> 0, toggles |-> 0,
             call |-> NoCall, prev |-> NoCall,
             before |-> BlankCells(Point(cols, rows)),
             before_prev |-> BlankCells(Point(cols, rows)),
             ops |-> {}, set_at |-> {}]
  /\ chist = [committed |-> BlankCells(Point(cols, rows)),
              prev |-> BlankCells(Point(cols, rows)),
              scanned |-> BlankCells(Point(cols, rows)),
              toggles |-> 0, toggles_now |-> 0,
              pre |-> BlankCells(Point(cols, rows)),
              pre_now |-> BlankCells(Point(cols, rows)),
              alt |-> FALSE, between |-> {}, set_at |-> {},
              pos_old |-> Point(1, 1), vis_old |-> FALSE]

MatrixInit == MatrixConstructed(MatRows, MatCols)

Blank == BlankCells(Point(MatCols, MatRows))

\* Matrix::resize on one of the cell arrays
resize_cells(cells, rows, cols) ==
  LET n == Max(0, rows)
      c == Max(0, cols)
      rs == IF n > Len(cells)
            THEN [y \in 1..n |-> IF y <= Len(cells) THEN cells[y] ELSE <<>>]
            ELSE cells
  IN [y \in DOMAIN rs |->
        IF y <= n /\ c > Len(rs[y])
        THEN [x \in 1..c |-> IF x <= Len(rs[y]) THEN rs[y][x] ELSE Cell0]
        ELSE rs[y]]

\* Matrix::resize: the size, the three cell arrays and the update bounds
matrix_resize(rows, cols) ==
  [size |-> Point(Max(0, cols), Max(0, rows)),
   cells |-> resize_cells(m_cells, rows, cols),
   cells_alt |-> resize_cells(m_cells_alt, rows, cols),
   cells_old |-> resize_cells(m_cells_old, rows, cols),
   update_bounds |-> [m_update_bounds EXCEPT
                        !.x1 = Min(@, Max(0, cols)),
                        !.y1 = Min(@, Max(0, rows))]]

\* the history of calls: the call before the last one and the buffers before
\* the calls are kept for scroll calls
Recorded(call) ==
  [hist EXCEPT
     !.n = @ + 1,
     !.commits = IF call.op = "commit" THEN @ + 1 ELSE @,
     !.toggles = IF call.op = "set_alternative_buffer_active"
                 THEN @ + 1 ELSE @,
     !.call = call,
     !.prev = IF call.op = "scroll" THEN hist.call ELSE NoCall,
     !.before = IF call.op = "scroll" THEN m_cells ELSE Blank,
     !.before_prev = IF call.op = "scroll" THEN hist.before ELSE Blank,
     !.ops = IF call.op = "commit" THEN {} ELSE @ \cup {call.op},
     !.set_at = IF call.op = "commit" THEN {}
                ELSE IF call.op = "set" THEN @ \cup {call.pos} ELSE @]

\* a call of the Matrix by the terminal: the renderer has not seen its
\* effect yet
Called(call) ==
  /\ hist' = Recorded(call)
  /\ r_hist' = IF call.op = "commit" THEN r_hist
               ELSE [r_hist EXCEPT !.quiet = -1]

\* Matrix::set
MxSet(pens, positions) ==
  \E pen \in pens, pos \in positions :
    LET m == MSet(m_cells, m_update_bounds, m_size, pen.glyph, pen.style, pos)
    IN /\ Called([op |-> "set", pos |-> pos])
       /\ UNCHANGED not_matrix_vars
       /\ m_cells' = m.cells
       /\ m_update_bounds' = m.bounds
       /\ UNCHANGED <<m_cells_alt, m_cells_old, m_pos, m_pos_last, m_pos_old,
                      m_size, m_cursor_visible, m_cursor_visible_old,
                      m_alternative_buffer_active, updates, chist>>

\* Matrix::fill
MxFill(pens, froms, tos) ==
  \E pen \in pens, from \in froms, to \in tos :
    LET m == MSetAll(m_cells, m_update_bounds, m_size, pen.glyph, pen.style,
                     fill_targets(m_size, from, to))
    IN /\ Called([op |-> "fill"])
       /\ UNCHANGED not_matrix_vars
       /\ m_cells' = m.cells
       /\ m_update_bounds' = m.bounds
       /\ UNCHANGED <<m_cells_alt, m_cells_old, m_pos, m_pos_last, m_pos_old,
                      m_size, m_cursor_visible, m_cursor_visible_old,
                      m_alternative_buffer_active, updates, chist>>

\* Matrix::move_abs
MxMoveAbs(positions) ==
  \E pos \in positions :
    /\ Called([op |-> "move_abs"])
    /\ UNCHANGED not_matrix_vars
    /\ m_pos' = Point(clip_border(pos.x, 1, m_size.x),
                      clip_border(pos.y, 1, m_size.y))
    /\ m_pos_last' = m_pos'
    /\ UNCHANGED <<m_cells, m_cells_alt, m_cells_old, m_pos_old, m_size,
                   m_cursor_visible, m_cursor_visible_old,
                   m_alternative_buffer_active, m_update_bounds, updates,
                   chist>>

\* Matrix::cursor_visible(bool)
MxCursorVisible ==
  \E visible \in BOOLEAN :
    /\ Called([op |-> "cursor_visible"])
    /\ UNCHANGED not_matrix_vars
    /\ m_cursor_visible' = visible
    /\ UNCHANGED <<m_cells, m_cells_alt, m_cells_old, m_pos, m_pos_last,
                   m_pos_old, m_size, m_cursor_visible_old,
                   m_alternative_buffer_active, m_update_bounds, updates,
                   chist>>

\* Matrix::write: set at the cursor, then move_rel(Point(1, 0), true), which
\* wraps into the next line and scrolls the view up by n lines
MxWrite(pens, replaces) ==
  \E pen \in pens, replaces_last \in replaces :
    LET at == IF replaces_last THEN m_pos_last ELSE m_pos
        m == MSet(m_cells, m_update_bounds, m_size, pen.glyph, pen.style, at)
        wrapped == IF at.x + 1 > m_size.x
                   THEN Point(at.x + 1 - m_size.x, at.y + 1)
                   ELSE Point(at.x + 1, at.y)
        n == IF wrapped.y > m_size.y THEN wrapped.y - m_size.y ELSE 0
        next == Point(clip_border(wrapped.x, 1, m_size.x),
                      clip_border(wrapped.y - n, 1, m_size.y))
    IN /\ m_size.y >= 2
       /\ Called([op |-> "write", at |-> at, replaces_last |-> replaces_last,
                  follows_write |-> hist.call.op = "write",
                  last_at |-> IF hist.call.op = "write" THEN hist.call.at
                              ELSE at])
       /\ UNCHANGED not_matrix_vars
       /\ m_cells' = IF n > 0
                     THEN scroll_lines_copy(m.cells, m_size, n,
                                            Steps(1, m_size.y, 1))
                     ELSE m.cells
       /\ m_update_bounds' = IF n > 0 THEN Rect(1, 1, m_size.x, m_size.y)
                             ELSE m.bounds
       /\ m_pos_old' = IF n > 0 THEN Point(m_pos_old.x, m_pos_old.y - n)
                       ELSE m_pos_old
       /\ m_pos' = next
       /\ m_pos_last' = next
       /\ UNCHANGED <<m_cells_alt, m_cells_old, m_size, m_cursor_visible,
                      m_cursor_visible_old, m_alternative_buffer_active,
                      updates, chist>>

\* Matrix::move_rel: the wrap into the following lines, the scroll by the n
\* lines the cursor left the screen, and move_abs
MxMoveRel(deltas, wraps) ==
  \E delta \in deltas, wrap \in wraps :
    LET RECURSIVE Wrapped(_)
        Wrapped(pos) ==
          IF pos.x > m_size.x
          THEN Wrapped(Point(pos.x - m_size.x, pos.y + 1))
          ELSE pos
        moved == Point(m_pos.x + delta.x, m_pos.y + delta.y)
        wrapped == IF wrap THEN Wrapped(moved) ELSE moved
        n == IF wrap /\ wrapped.y > m_size.y THEN wrapped.y - m_size.y ELSE 0
        next == Point(clip_border(wrapped.x, 1, m_size.x),
                      clip_border(wrapped.y - n, 1, m_size.y))
    IN /\ m_size.x >= 1 /\ m_size.y >= 2
       /\ Called([op |-> "move_rel"])
       /\ UNCHANGED not_matrix_vars
       /\ m_cells' = IF n > 0
                     THEN scroll_lines_copy(m_cells, m_size, n,
                                            Steps(1, m_size.y, 1))
                     ELSE m_cells
       /\ m_update_bounds' = IF n > 0 THEN Rect(1, 1, m_size.x, m_size.y)
                             ELSE m_update_bounds
       /\ m_pos_old' = IF n > 0 THEN Point(m_pos_old.x, m_pos_old.y - n)
                       ELSE m_pos_old
       /\ m_pos' = next
       /\ m_pos_last' = next
       /\ UNCHANGED <<m_cells_alt, m_cells_old, m_size, m_cursor_visible,
                      m_cursor_visible_old, m_alternative_buffer_active,
                      updates, chist>>

\* Matrix::resize: the cursor position is left as it is
MxResize(sizes) ==
  \E size \in sizes :
    LET m == matrix_resize(size.y, size.x)
    IN /\ Called([op |-> "resize"])
       /\ UNCHANGED not_matrix_vars
       /\ m_size' = m.size
       /\ m_cells' = m.cells
       /\ m_cells_alt' = m.cells_alt
       /\ m_cells_old' = m.cells_old
       /\ m_update_bounds' = m.update_bounds
       /\ UNCHANGED <<m_pos, m_pos_last, m_pos_old, m_cursor_visible,
                      m_cursor_visible_old, m_alternative_buffer_active,
                      updates, chist>>

\* Matrix::reset: the vectors are cut or extended to the matrix size, and
\* set(0, Style{}) runs over the current buffer only
MxReset ==
  LET Fitted(cells) ==
        [y \in 1..m_size.y |-> [x \in 1..m_size.x |->
           IF y <= Len(cells) /\ x <= Len(cells[y]) THEN cells[y][x]
           ELSE Cell0]]
      m == MSetAll(Fitted(m_cells), m_update_bounds, m_size, 0, Style0,
                   Grid(Steps(1, m_size.x, 1), Steps(1, m_size.y, 1)))
  IN /\ Called([op |-> "reset"])
     /\ UNCHANGED not_matrix_vars
     /\ m_pos' = Point(1, 1)
     /\ m_pos_last' = Point(1, 1)
     /\ m_cursor_visible' = TRUE
     /\ m_cells' = m.cells
     /\ m_cells_alt' = Fitted(m_cells_alt)
     /\ m_cells_old' = Fitted(m_cells_old)
     /\ m_update_bounds' = m.bounds
     /\ UNCHANGED <<m_pos_old, m_size, m_cursor_visible_old,
                    m_alternative_buffer_active, updates, chist>>

\* Matrix::scroll(glyph, style, r, downward, rightward)
MxScroll(pens, rects, distances) ==
  \E pen \in pens, r \in rects, by \in distances :
    /\ Called([op |-> "scroll", pen |-> pen, r |-> r,
               downward |-> by.y, rightward |-> by.x])
    /\ UNCHANGED not_matrix_vars
    /\ IF (by.y = 0 /\ by.x = 0) \/ ~RectValid(r)
       THEN UNCHANGED <<m_cells, m_pos_old, m_update_bounds>>
       ELSE /\ m_cells' = scroll_copy(m_cells, pen.glyph, pen.style, r,
                                      by.y, by.x,
                                      scroll_targets(r, by.y, by.x))
            /\ m_pos_old' = Point(m_pos_old.x - by.x, m_pos_old.y - by.y)
            /\ m_update_bounds' = Rect(1, 1, m_size.x, m_size.y)
    /\ UNCHANGED <<m_cells_alt, m_cells_old, m_pos, m_pos_last, m_size,
                   m_cursor_visible, m_cursor_visible_old,
                   m_alternative_buffer_active, updates, chist>>

\* a buffer toggle that overwrites the current buffer without keeping it
swap_buffers_lossy(cells, cells_alt) ==
  [cells |-> [y \in DOMAIN cells_alt |-> [x \in DOMAIN cells_alt[y] |->
                [cells_alt[y][x] EXCEPT !.dirty = TRUE]]],
   alt |-> cells_alt]

\* std::swap(m_cells, m_cells_alt), then every current cell is marked dirty
swap_buffers(cells, cells_alt) ==
  [cells |-> [y \in DOMAIN cells_alt |-> [x \in DOMAIN cells_alt[y] |->
                [cells_alt[y][x] EXCEPT !.dirty = TRUE]]],
   alt |-> cells]

\* Matrix::set_alternative_buffer_active
MxSetAlternativeBufferActive ==
  \E active \in BOOLEAN :
    /\ Called([op |-> "set_alternative_buffer_active", active |-> active,
               toggled |-> (active # m_alternative_buffer_active)])
    /\ UNCHANGED not_matrix_vars
    /\ IF active # m_alternative_buffer_active
       THEN /\ m_alternative_buffer_active' = active
            /\ m_cells' = swap_buffers(m_cells, m_cells_alt).cells
            /\ m_cells_alt' = swap_buffers(m_cells, m_cells_alt).alt
            /\ chist' = [chist EXCEPT
                           !.toggles_now = @ + 1,
                           !.pre_now = IF chist.toggles_now = 0
                                       THEN m_cells ELSE @]
       ELSE UNCHANGED <<m_alternative_buffer_active, m_cells, m_cells_alt,
                        chist>>
    /\ UNCHANGED <<m_cells_old, m_pos, m_pos_last, m_pos_old, m_size,
                   m_cursor_visible, m_cursor_visible_old, m_update_bounds,
                   updates>>

\* the history of the commits after a commit with result c
commit_history(c) ==
  [committed |-> c.cells, prev |-> chist.committed, scanned |-> c.scanned,
   toggles |-> chist.toggles_now, toggles_now |-> 0,
   pre |-> chist.pre_now, pre_now |-> Blank,
   alt |-> m_alternative_buffer_active, between |-> hist.ops,
   set_at |-> hist.set_at,
   pos_old |-> m_pos_old, vis_old |-> m_cursor_visible_old]

\* Matrix::commit
MxCommit ==
  LET c == commit_result(m_cells, m_cells_old, m_update_bounds, m_size,
                         m_pos, m_pos_old, m_cursor_visible,
                         m_cursor_visible_old)
  IN /\ Called([op |-> "commit"])
     /\ UNCHANGED not_matrix_vars
     /\ m_cells' = c.cells
     /\ m_cells_old' = c.old
     /\ m_update_bounds' = c.bounds
     /\ updates' = c.updates
     /\ m_pos_old' = m_pos
     /\ m_cursor_visible_old' = m_cursor_visible
     /\ chist' = commit_history(c)
     /\ UNCHANGED <<m_cells_alt, m_pos, m_pos_last, m_size, m_cursor_visible,
                    m_alternative_buffer_active>>

(***************************************************************************)
(* MemoryDisplay                                                            *)
(***************************************************************************)
Threads == {1, 2}

RGBA(r, g, b, a) == [r |-> r % 256, g |-> g % 256, b |-> b % 256,
                     a |-> a % 256]
RGBA0 == RGBA(0, 0, 0, 0)

\* RGBA::premultiply_alpha
premultiply_alpha(c) ==
  RGBA((c.r * c.a) \div 255, (c.g * c.a) \div 255, (c.b * c.a) \div 255, c.a)

UpdateMode(output_op, mask_op) ==
  [output_op |-> output_op, mask_op |-> mask_op]

RectWidth(r) == r.x1 - r.x0
RectHeight(r) == r.y1 - r.y0

\* Rect::clipx, Rect::clipy
clipx(s, x, border) ==
  IF border
  THEN (IF x < s.x0 THEN s.x0 ELSE IF x > s.x1 THEN s.x1 ELSE x)
  ELSE (IF x < s.x0 THEN s.x0 ELSE IF x >= s.x1 THEN s.x1 - 1 ELSE x)

clipy(s, y, border) ==
  IF border
  THEN (IF y < s.y0 THEN s.y0 ELSE IF y > s.y1 THEN s.y1 ELSE y)
  ELSE (IF y < s.y0 THEN s.y0 ELSE IF y >= s.y1 THEN s.y1 - 1 ELSE y)

\* Rect::clip(const Rect &)
rect_clip(s, r) ==
  Rect(clipx(s, r.x0, FALSE), clipy(s, r.y0, FALSE),
       clipx(s, r.x1, TRUE), clipy(s, r.y1, TRUE))

\* the stride in bytes of a line of w pixels
stride_of(w) == ((w * 4 + 15) \div 16) * 16

\* std::vector<RGBA>::resize
resize_buffer(buf, size) ==
  [i \in 1..size |-> IF i <= Len(buf) THEN buf[i] ELSE RGBA0]

\* MemoryDisplay::Impl::resize: the new width, height, stride and buffers
resize(w, h) ==
  IF w = d_width \/ h = d_height
  THEN [width |-> d_width, height |-> d_height, stride |-> d_stride,
        composite |-> d_composite, bg |-> d_layer_bg,
        presentation |-> d_layer_presentation]
  ELSE LET size == (h * stride_of(w)) \div 4
       IN [width |-> w, height |-> h, stride |-> stride_of(w),
           composite |-> resize_buffer(d_composite, size),
           bg |-> resize_buffer(d_layer_bg, size),
           presentation |-> resize_buffer(d_layer_presentation, size)]

\* the index (from 1) of pixel (x, y) in a buffer of the given stride
Offset(stride, x, y) == (y * stride) \div 4 + x + 1

\* the lines a loop "for (size_t y = size_t(r.y0); y < size_t(r.y1); y++)"
\* visits
Lines(r) == IF r.y0 < 0 \/ r.y1 < 0 THEN {} ELSE r.y0..(r.y1 - 1)

\* the pixel of rectangle r stored at index i, if there is one
Covered(stride, r, i) ==
  {Point(i - Offset(stride, 0, y), y) :
     y \in {l \in Lines(r) :
              i - Offset(stride, 0, l) \in r.x0..(r.x1 - 1)}}

\* the pixel a background pixel and a presentation pixel blend to, ignoring
\* the background
compose_pixel_opaque(bg, mg) == RGBA(mg.r, mg.g, mg.b, 255)

\* MemoryDisplay::Impl::compose, one pixel: uint16_t arithmetic, stored as an
\* opaque RGBA
compose_pixel(bg, mg) ==
  RGBA((((bg.r * (255 - mg.a)) \div 255) + mg.r) % 65536,
       (((bg.g * (255 - mg.a)) \div 255) + mg.g) % 65536,
       (((bg.b * (255 - mg.a)) \div 255) + mg.b) % 65536, 255)

\* MemoryDisplay::Impl::compose
compose(composite, bg, presentation, stride, r) ==
  [i \in DOMAIN composite |->
     IF Covered(stride, r, i) # {}
     THEN compose_pixel(bg[i], presentation[i])
     ELSE composite[i]]

\* the composition loop of MemoryDisplay::Impl::unlock
RECURSIVE compose_all(_, _, _, _, _)
compose_all(composite, bg, presentation, stride, requests) ==
  IF requests = <<>> THEN composite
  ELSE compose_all(compose(composite, bg, presentation, stride,
                           Head(requests).r),
                   bg, presentation, stride, Tail(requests))

\* a target test that forgets the lock counter
target_rect_unlocked(r) ==
  LET c == rect_clip(d_surf_rect, r)
  IN [ok |-> RectWidth(c) # 0 /\ RectHeight(c) # 0, r |-> c]

\* MemoryDisplay::Impl::get_target_pointer_and_clip_rect
target_rect(r) ==
  LET c == rect_clip(d_surf_rect, r)
  IN [ok |-> d_locked > 0 /\ RectWidth(c) # 0 /\ RectHeight(c) # 0, r |-> c]

\* MemoryDisplay::Impl::fill on one layer buffer
fill_layer(buf, c, r) ==
  [i \in DOMAIN buf |->
     IF Covered(d_stride, r, i) # {} THEN premultiply_alpha(c) ELSE buf[i]]

\* MemoryDisplay::Impl::blit on one layer buffer; the mask is an array of
\* bytes (from index 0) of the given stride
blit_layer(buf, c, mask, stride, r, mode) ==
  [i \in DOMAIN buf |->
     IF Covered(d_stride, r, i) = {} THEN buf[i]
     ELSE LET p == CHOOSE q \in Covered(d_stride, r, i) : TRUE
              a == mask[stride * (p.y - r.y0) + (p.x - r.x0)]
          IN IF a = 0 THEN buf[i]
             ELSE IF mode = "Write"
             THEN RGBA((c.r * a) \div 255, (c.g * a) \div 255,
                       (c.b * a) \div 255, a)
             ELSE RGBA0]

\* dither::ordered_binary_4bit_greyscale, one pixel: white where the grey
\* level g (0 to 15) exceeds the threshold of the 4 x 4 ordered pattern
dither_pixel(g, x, y) ==
  LET bayer == <<<<0, 8, 2, 10>>, <<12, 4, 14, 6>>, <<3, 11, 1, 9>>,
                 <<15, 7, 13, 5>>>>
  IN IF 16 * g > 15 * bayer[(y % 4) + 1][(x % 4) + 1]
     THEN RGBA(255, 255, 255, 255)
     ELSE RGBA(0, 0, 0, 255)

\* MemoryDisplay::Impl::fill_dither on one layer buffer
fill_dither_layer(buf, g, r) ==
  [i \in DOMAIN buf |->
     IF Covered(d_stride, r, i) = {} THEN buf[i]
     ELSE LET p == CHOOSE q \in Covered(d_stride, r, i) : TRUE
          IN dither_pixel(g, p.x, p.y)]

NoHook == [hook |-> "none", thread |-> 0, requests |-> <<>>]

\* MemoryDisplay::Impl::Impl
DisplayInit ==
  /\ d_locked = 0
  /\ d_width = 0
  /\ d_height = 0
  /\ d_stride = 0
  /\ d_display_rect = Rect(0, 0, 0, 0)
  /\ d_surf_rect = Rect(0, 0, 0, 0)
  /\ d_commit_requests = <<>>
  /\ d_composite = <<>>
  /\ d_layer_bg = <<>>
  /\ d_layer_presentation = <<>>
  /\ d_mutex = [owner |-> 0, count |-> 0]
  /\ d_pc = [t \in Threads |-> "ready"]
  /\ d_hooks = <<>>
  /\ d_hist = [locks |-> 0, draws |-> 0, commits |-> 0,
               call |-> [op |-> "none", thread |-> 0],
               held |-> [t \in Threads |-> 0], foreign |-> FALSE]

\* std::recursive_mutex::unlock by the owner
mutex_release(m) ==
  IF m.count <= 1 THEN [owner |-> 0, count |-> 0]
  ELSE [m EXCEPT !.count = @ - 1]

\* a lock() that calls the backend whatever the lock counter is
first_lock_every_time(locked) == TRUE

\* MemoryDisplay::Impl::lock: the lock counter says the display is not locked
first_lock(locked) == locked = 0

\* an unlock() that calls the backend whatever the lock counter is
last_unlock_every_time(locked) == TRUE

\* MemoryDisplay::Impl::unlock: the decremented lock counter says the display
\* is not locked any more
last_unlock(locked) == locked = 0

\* MemoryDisplay::Impl::lock once m_mutex.lock() has returned; calls is the
\* number of lock() calls this step starts
lock_enter(t, results, calls) ==
  /\ d_mutex' = [owner |-> t, count |-> d_mutex.count + 1]
  /\ d_pc' = [d_pc EXCEPT ![t] = "ready"]
  /\ d_locked' = d_locked + 1
  /\ IF first_lock(d_locked)
     THEN \E r \in results :
            /\ d_hooks' = Append(d_hooks, [hook |-> "do_lock", thread |-> t,
                                           requests |-> <<>>])
            /\ IF RectValid(r)
               THEN LET n == resize(RectWidth(r), RectHeight(r))
                    IN /\ d_width' = n.width
                       /\ d_height' = n.height
                       /\ d_stride' = n.stride
                       /\ d_composite' = n.composite
                       /\ d_layer_bg' = n.bg
                       /\ d_layer_presentation' = n.presentation
                       /\ d_display_rect' = r
                       /\ d_surf_rect' = Rect(0, 0, n.width, n.height)
               ELSE UNCHANGED <<d_width, d_height, d_stride, d_composite,
                                d_layer_bg, d_layer_presentation,
                                d_display_rect, d_surf_rect>>
     ELSE UNCHANGED <<d_hooks, d_width, d_height, d_stride, d_composite,
                      d_layer_bg, d_layer_presentation, d_display_rect,
                      d_surf_rect>>
  /\ d_hist' = [d_hist EXCEPT !.locks = @ + calls,
                              !.call = [op |-> "lock", thread |-> t],
                              !.held[t] = @ + 1]
  /\ UNCHANGED d_commit_requests

\* MemoryDisplay::lock: the call, up to its return or to the point where it
\* waits for the mutex another thread owns
DLock(t, results) ==
  /\ d_pc[t] = "ready"
  /\ IF d_mutex.count = 0 \/ d_mutex.owner = t
     THEN lock_enter(t, results, 1)
     ELSE /\ d_pc' = [d_pc EXCEPT ![t] = "waiting"]
          /\ d_hist' = [d_hist EXCEPT !.locks = @ + 1,
                                      !.call = [op |-> "lock_wait",
                                                thread |-> t]]
          /\ UNCHANGED <<d_locked, d_width, d_height, d_stride,
                         d_display_rect, d_surf_rect, d_commit_requests,
                         d_composite, d_layer_bg, d_layer_presentation,
                         d_mutex, d_hooks>>
  /\ UNCHANGED not_display_vars

\* MemoryDisplay::lock: the rest of the call once the mutex is free
DLockAcquire(t, results) ==
  /\ d_pc[t] = "waiting"
  /\ d_mutex.count = 0
  /\ lock_enter(t, results, 0)
  /\ UNCHANGED not_display_vars

\* the commit requests translated to the coordinates of the backend
translated(requests, origin) ==
  [i \in 1..Len(requests) |->
     [r |-> Translate(requests[i].r, origin.x, origin.y),
      mode |-> requests[i].mode]]

\* MemoryDisplay::unlock. Unlocking a std::recursive_mutex the calling thread
\* does not own is undefined: the mutex is released or stays as it is.
DUnlock(t) ==
  /\ d_pc[t] = "ready"
  /\ IF d_locked > 0
     THEN /\ d_locked' = d_locked - 1
          /\ IF last_unlock(d_locked - 1)
             THEN /\ d_composite' =
                       compose_all(d_composite, d_layer_bg,
                                   d_layer_presentation, d_stride,
                                   d_commit_requests)
                  /\ d_hooks' =
                       Append(d_hooks,
                              [hook |-> "do_unlock", thread |-> t,
                               requests |->
                                 translated(d_commit_requests,
                                            Point(d_display_rect.x0,
                                                  d_display_rect.y0))])
                  /\ d_commit_requests' = <<>>
                  /\ IF d_mutex.owner = t
                     THEN d_mutex' = mutex_release(d_mutex)
                     ELSE \E released \in BOOLEAN :
                            d_mutex' = IF released
                                       THEN mutex_release(d_mutex)
                                       ELSE d_mutex
             ELSE UNCHANGED <<d_composite, d_hooks, d_commit_requests,
                              d_mutex>>
          /\ d_hist' = [d_hist EXCEPT
                          !.call = [op |-> "unlock", thread |-> t],
                          !.held[t] = IF @ > 0 THEN @ - 1 ELSE 0,
                          !.foreign = @ \/ (d_hist.held[t] = 0)]
     ELSE /\ d_hist' = [d_hist EXCEPT
                          !.call = [op |-> "unlock", thread |-> t]]
          /\ UNCHANGED <<d_locked, d_composite, d_hooks, d_commit_requests,
                         d_mutex>>
  /\ UNCHANGED <<d_width, d_height, d_stride, d_display_rect, d_surf_rect,
                 d_layer_bg, d_layer_presentation, d_pc>>
  /\ UNCHANGED not_display_vars

\* a commit that puts its request in front of the requests queued so far
enqueue_front(requests, surf, r, mode) ==
  <<[r |-> IF ~RectValid(r) THEN surf ELSE rect_clip(surf, r),
     mode |-> mode]>> \o requests

\* MemoryDisplay::Impl::commit on a locked display: the request joins the
\* queue
enqueue(requests, surf, r, mode) ==
  Append(requests, [r |-> IF ~RectValid(r) THEN surf ELSE rect_clip(surf, r),
                    mode |-> mode])

\* MemoryDisplay::commit
DCommit(t, rects, modes) ==
  \E r \in rects, mode \in modes :
    /\ d_pc[t] = "ready"
    /\ d_commit_requests' =
         IF d_locked <= 0 THEN d_commit_requests
         ELSE enqueue(d_commit_requests, d_surf_rect, r, mode)
    /\ d_hist' = [d_hist EXCEPT !.commits = @ + 1,
                                !.call = [op |-> "commit", thread |-> t]]
    /\ UNCHANGED <<d_locked, d_width, d_height, d_stride, d_display_rect,
                   d_surf_rect, d_composite, d_layer_bg,
                   d_layer_presentation, d_mutex, d_pc, d_hooks>>
    /\ UNCHANGED not_display_vars

\* a drawing call that gives the two layers new contents
Drawn(t, op, bg, presentation) ==
  /\ d_pc[t] = "ready"
  /\ d_layer_bg' = bg
  /\ d_layer_presentation' = presentation
  /\ d_hist' = [d_hist EXCEPT !.draws = @ + 1,
                              !.call = [op |-> op, thread |-> t]]
  /\ UNCHANGED <<d_locked, d_width, d_height, d_stride, d_display_rect,
                 d_surf_rect, d_commit_requests, d_composite, d_mutex, d_pc,
                 d_hooks>>
  /\ UNCHANGED not_display_vars

\* MemoryDisplay::fill
DFill(t, calls) ==
  \E call \in calls :
    LET tr == target_rect(call.r)
    IN Drawn(t, "fill",
             IF tr.ok /\ call.layer = "Background"
             THEN fill_layer(d_layer_bg, call.c, tr.r) ELSE d_layer_bg,
             IF tr.ok /\ call.layer = "Presentation"
             THEN fill_layer(d_layer_presentation, call.c, tr.r)
             ELSE d_layer_presentation)

\* MemoryDisplay::fill_dither
DFillDither(t, calls) ==
  \E call \in calls :
    LET tr == target_rect(call.r)
    IN Drawn(t, "fill_dither",
             IF tr.ok /\ call.layer = "Background"
             THEN fill_dither_layer(d_layer_bg, call.g, tr.r)
             ELSE d_layer_bg,
             IF tr.ok /\ call.layer = "Presentation"
             THEN fill_dither_layer(d_layer_presentation, call.g, tr.r)
             ELSE d_layer_presentation)

\* MemoryDisplay::blit
DBlit(t, calls) ==
  \E call \in calls :
    LET tr == target_rect(call.r)
    IN Drawn(t, "blit",
             IF tr.ok /\ call.layer = "Background"
             THEN blit_layer(d_layer_bg, call.c, call.mask.bytes,
                             call.mask.stride, tr.r, call.mode)
             ELSE d_layer_bg,
             IF tr.ok /\ call.layer = "Presentation"
             THEN blit_layer(d_layer_presentation, call.c, call.mask.bytes,
                             call.mask.stride, tr.r, call.mode)
             ELSE d_layer_presentation)

\* what the callers and the backend hand to the display
Surface == Rect(0, 0, SurfW, SurfH)
SurfaceMoved == Rect(1, 1, SurfW + 2, SurfH + 2)
PassA == UpdateMode("Identity", "SourceMono")
PassB == UpdateMode("Identity", "Partial")
White == RGBA(255, 255, 255, 255)
Veil == RGBA(200, 100, 50, 128)
Ink == RGBA(100, 200, 50, 255)
\* a glyph bitmap: transparent, half covered and covered pixels
Glyph ==
  [stride |-> SurfW + 1,
   bytes |-> [i \in 0..((SurfW + 1) * (SurfH + 1) - 1) |->
                <<128, 255, 0>>[(i % 3) + 1]]]

\* threads sharing the display
LockNext ==
  \/ \E t \in Threads :
       d_hist.locks < MaxLocks /\ DLock(t, {Surface, RectInvalid})
  \/ \E t \in Threads : DLockAcquire(t, {Surface, RectInvalid})
  \/ \E t \in Threads : DUnlock(t)
  \/ \E t \in Threads :
       d_hist.commits < MaxRequests /\
       DCommit(t, {RectInvalid}, {PassA, PassB})

\* one thread drawing
ComposeNext ==
  \/ d_hist.locks < MaxLocks /\
       DLock(1, {Surface, SurfaceMoved, RectInvalid})
  \/ DUnlock(1)
  \/ d_hist.commits < MaxRequests /\
       DCommit(1, {RectInvalid, Rect(0, 0, 1, SurfH)}, {PassA})
  \/ d_hist.draws < MaxDraws /\
       DFill(1, {[layer |-> "Background", c |-> White, r |-> Surface],
                 [layer |-> "Background", c |-> Veil,
                  r |-> Rect(1, 0, SurfW + 2, 1)],
                 [layer |-> "Presentation", c |-> Veil, r |-> Surface],
                 [layer |-> "Presentation", c |-> White,
                  r |-> Rect(SurfW + 1, 0, SurfW + 3, 1)]})
  \/ d_hist.draws < MaxDraws /\
       DBlit(1, {[layer |-> "Presentation", c |-> Ink, mask |-> Glyph,
                  r |-> Surface, mode |-> "Write"],
                 [layer |-> "Presentation", c |-> Ink, mask |-> Glyph,
                  r |-> Rect(1, 1, 2, 2), mode |-> "Erase"]})
  \/ d_hist.draws = 0 /\
       DFillDither(1, {[layer |-> "Background", g |-> 8, r |-> Surface]})

(***************************************************************************)
(* RectangleMerger                                                          *)
(***************************************************************************)
\* Rect::area
RectArea(r) == RectWidth(r) * RectHeight(r)

\* Rect::grow(const Rect &)
RectGrow(r, s) ==
  Rect(Min(r.x0, s.x0), Min(r.y0, s.y0), Max(r.x1, s.x1), Max(r.y1, s.y1))

\* a merge rule that compares the areas without the factor 3 / 4
matches_any(r, s) == RectArea(r) + RectArea(s) >= RectArea(RectGrow(r, s)) \div 4

\* RectangleMerger::Impl::search_matching_rectangle: the test of one
\* candidate
matches(r, s) ==
  RectArea(r) + RectArea(s) >= (3 * RectArea(RectGrow(r, s))) \div 4

\* RectangleMerger::Impl::search_matching_rectangle among the first i1
\* rectangles of the list: the index found (from 1), or 0
search_matching_rectangle(rects, r, i1) ==
  LET found == {i \in 1..i1 : matches(r, rects[i])}
  IN IF found = {} THEN 0 ELSE CHOOSE i \in found : \A j \in found : j <= i

\* a merge that invalidates rectangle i without growing rectangle idx
merged_into_dropped(m, i, idx) ==
  [rects |-> [m.rects EXCEPT ![i] = RectInvalid],
   from |-> [m.from EXCEPT ![idx] = m.from[idx] \cup m.from[i],
                           ![i] = {}],
   steps |-> Append(m.steps, [r |-> m.rects[i], s |-> m.rects[idx],
                              u |-> m.rects[idx]])]

\* the list and its history with rectangle i merged into rectangle idx
merged_into(m, i, idx) ==
  [rects |-> [m.rects EXCEPT ![idx] = RectGrow(m.rects[idx], m.rects[i]),
                             ![i] = RectInvalid],
   from |-> [m.from EXCEPT ![idx] = m.from[idx] \cup m.from[i],
                           ![i] = {}],
   steps |-> Append(m.steps, [r |-> m.rects[i], s |-> m.rects[idx],
                              u |-> RectGrow(m.rects[idx], m.rects[i])])]

\* RectangleMerger::Impl::merge: the loop over the rectangles, from index i
\* down to the second one
RECURSIVE merge_pass(_, _)
\* a loop that stops before the second rectangle
merge_pass_from_third(m, i) ==
  IF i < 3 THEN m
  ELSE LET idx == search_matching_rectangle(m.rects, m.rects[i], i - 1)
       IN merge_pass(IF idx > 0 THEN merged_into(m, i, idx) ELSE m, i - 1)
merge_pass(m, i) ==
  IF i < 2 THEN m
  ELSE LET idx == search_matching_rectangle(m.rects, m.rects[i], i - 1)
       IN merge_pass(IF idx > 0 THEN merged_into(m, i, idx) ELSE m, i - 1)

\* std::remove_if of the invalid rectangles, on the list and its history
RECURSIVE remove_invalid(_)
remove_invalid(m) ==
  IF m.rects = <<>> THEN m
  ELSE LET rest == remove_invalid([m EXCEPT !.rects = Tail(@),
                                            !.from = Tail(@)])
       IN IF RectValid(Head(m.rects))
          THEN [rest EXCEPT !.rects = <<Head(m.rects)>> \o @,
                            !.from = <<Head(m.from)>> \o @]
          ELSE rest

\* RectangleMerger::Impl::merge: passes until one finds nothing to merge
RECURSIVE merge_all(_)
merge_all(m) ==
  LET n == merge_pass(m, Len(m.rects))
  IN IF Len(n.steps) = Len(m.steps) THEN m
     ELSE merge_all(remove_invalid(n))

\* RectangleMerger::RectangleMerger
MergerInit ==
  /\ rm_rects = <<>>
  /\ rm_hist = [inserts |-> 0, merges |-> 0, call |-> "none",
                inserted |-> <<>>, from |-> <<>>, steps |-> <<>>]

\* RectangleMerger::Impl::insert on the list and its history
insert_into(m, r) ==
  LET idx == search_matching_rectangle(m.rects, r, Len(m.rects))
      k == Len(m.inserted) + 1
  IN [rects |-> IF idx > 0 THEN [m.rects EXCEPT ![idx] = RectGrow(@, r)]
                ELSE Append(m.rects, r),
      inserted |-> Append(m.inserted, r),
      from |-> IF idx > 0 THEN [m.from EXCEPT ![idx] = @ \cup {k}]
               ELSE Append(m.from, {k}),
      steps |-> IF idx > 0
                THEN <<[r |-> r, s |-> m.rects[idx],
                        u |-> RectGrow(m.rects[idx], r)]>>
                ELSE <<>>]

\* RectangleMerger::insert
RmInsert(rects) ==
  \E r \in rects :
    LET m == insert_into([rects |-> rm_rects, inserted |-> rm_hist.inserted,
                          from |-> rm_hist.from, steps |-> <<>>], r)
    IN /\ rm_rects' = m.rects
       /\ rm_hist' = [rm_hist EXCEPT !.inserts = @ + 1,
                                     !.call = "insert",
                                     !.inserted = m.inserted,
                                     !.from = m.from,
                                     !.steps = m.steps]
       /\ UNCHANGED not_merger_vars

\* RectangleMerger::merge
RmMerge ==
  LET m == merge_all([rects |-> rm_rects, from |-> rm_hist.from,
                      steps |-> <<>>])
  IN /\ rm_rects' = m.rects
     /\ rm_hist' = [rm_hist EXCEPT !.merges = @ + 1, !.call = "merge",
                                   !.from = m.from, !.steps = m.steps]
     /\ UNCHANGED not_merger_vars

\* RectangleMerger::reset
RmReset ==
  /\ rm_rects' = <<>>
  /\ rm_hist' = [rm_hist EXCEPT !.merges = @ + 1, !.call = "reset",
                                !.inserted = <<>>, !.from = <<>>,
                                !.steps = <<>>]
  /\ UNCHANGED not_merger_vars

\* the rectangles the renderer hands to the merger
DirtyRects ==
  {Rect(0, 0, 2, 2), Rect(2, 0, 4, 1), Rect(0, 3, 4, 4), Rect(0, 0, 1, 1),
   Rect(2, 0, 3, 1), Rect(4, 1, 6, 3), Rect(1, 1, 1, 1), Rect(8, 8, 9, 9)}

MergerNext ==
  \/ rm_hist.inserts < MaxInserts /\ RmInsert(DirtyRects)
  \/ rm_hist.merges < MaxMerges /\ RmMerge
  \/ rm_hist.merges < MaxMerges /\ RmReset

(***************************************************************************)
(* E-paper emulation                                                        *)
(***************************************************************************)
\* UpdateMode::OutputOp and UpdateMode::MaskOp
OutputOp ==
  [Identity |-> 0, ForceMono |-> 1, Invert |-> 2, InvertAndForceMono |-> 3,
   White |-> 4]
MaskOp ==
  [Full |-> 0, SourceMono |-> 1, TargetMono |-> 2,
   SourceAndTargetMono |-> 3, Partial |-> 4]

\* (value & flag) != 0 for a flag of one bit
HasBit(value, flag) == (value \div flag) % 2 = 1

Pow2(n) == IF n = 0 THEN 1 ELSE IF n = 1 THEN 2 ELSE IF n = 2 THEN 4
           ELSE IF n = 3 THEN 8 ELSE IF n = 4 THEN 16 ELSE IF n = 5 THEN 32
           ELSE IF n = 6 THEN 64 ELSE IF n = 7 THEN 128 ELSE 256

\* the colour layout of the SDL backend
SdlLayout ==
  [bpp |-> 32, rr |-> 0, rl |-> 0, gr |-> 0, gl |-> 8, br |-> 0, bl |-> 16,
   ar |-> 0, al |-> 24]

\* ColorLayout::bypp
bypp(l) == (l.bpp + 7) \div 8

\* a uint32_t is the set of the positions (0 to 31) of its bits that are 1

\* the value of the bits of eight-bit value v, each moved up by shift
\* positions, within a uint32_t
BitsOf(v, shift) ==
  {i \in 0..31 : i >= shift /\ i - shift <= 7 /\ HasBit(v, Pow2(i - shift))}

\* the number made of the width bits of x from position from on
RECURSIVE Field(_, _, _)
Field(x, from, width) ==
  IF width <= 0 THEN 0
  ELSE Field(x, from, width - 1) +
       (IF from + width - 1 \in x THEN Pow2(width - 1) ELSE 0)

\* ColorLayout::conv_from_rgba
conv_from_rgba(l, c) ==
  BitsOf(c.r \div Pow2(l.rr), l.rl) \cup BitsOf(c.g \div Pow2(l.gr), l.gl) \cup
  BitsOf(c.b \div Pow2(l.br), l.bl) \cup BitsOf(c.a \div Pow2(l.ar), l.al)

\* ColorLayout::conv_to_rgba
conv_to_rgba(l, x) ==
  RGBA(Field(x, l.rl, 8 - l.rr) * Pow2(l.rr),
       Field(x, l.gl, 8 - l.gr) * Pow2(l.gr),
       Field(x, l.bl, 8 - l.br) * Pow2(l.br),
       Field(x, l.al, 8 - l.ar) * Pow2(l.ar))

\* epaper_emulation::update: the uint32_t read from the bytes of a pixel of
\* the target
read_pixel(bytes) ==
  UNION {BitsOf(bytes[k], 8 * (k - 1)) : k \in 1..Len(bytes)}

\* epaper_emulation::update: the bytes of a pixel of the target written from
\* a uint32_t
write_pixel(l, cc) == [k \in 1..bypp(l) |-> Field(cc, 8 * (k - 1), 8)]

\* epaper_emulation::rgba_to_greyscale
rgba_to_greyscale(x) ==
  ((((x.r * 77) % 65536) + ((x.g * 151) % 65536) + ((x.b * 28) % 65536))
     \div 4096) % 256

\* epaper_emulation::greyscale_to_rgba
greyscale_to_rgba(g) ==
  LET x == <<0, 17, 34, 51, 68, 85, 102, 119, 136, 153, 170, 187, 204, 221,
             238, 255>>[(g % 16) + 1]
  IN RGBA(x, x, x, 255)

\* an output operation that forgets to invert when it forces black and white
output_before_mask_mono_only(op, g) ==
  IF HasBit(op, OutputOp.ForceMono) THEN (IF g > 7 THEN 15 ELSE 0)
  ELSE IF HasBit(op, OutputOp.Invert) THEN 15 - g ELSE g

\* epaper_emulation::update: the output operation applied before the mask is
\* computed
output_before_mask(op, g) ==
  LET inverted == IF HasBit(op, OutputOp.Invert) THEN 15 - g ELSE g
  IN IF HasBit(op, OutputOp.ForceMono)
     THEN (IF inverted > 7 THEN 15 ELSE 0)
     ELSE inverted

\* epaper_emulation::update: the update mask
masked(mask_op, g_src, g_tar) ==
  \/ HasBit(mask_op, MaskOp.SourceMono) /\ g_src # 0 /\ g_src # 15
  \/ HasBit(mask_op, MaskOp.TargetMono) /\ g_tar # 0 /\ g_tar # 15
  \/ HasBit(mask_op, MaskOp.Partial) /\ g_tar = g_src

\* epaper_emulation::update: the output operation applied after the mask is
\* computed
output_after_mask(op, g) == IF HasBit(op, OutputOp.White) THEN 15 ELSE g

\* an update that writes a masked pixel back as its grey level, without
\* greyscale_to_rgba
update_pixel_raw_grey(layout, mode, tar, c_src) ==
  LET g_tar == rgba_to_greyscale(conv_to_rgba(layout, read_pixel(tar)))
      g_src == output_before_mask(OutputOp[mode.output_op],
                                  rgba_to_greyscale(c_src))
      cc == IF ~masked(MaskOp[mode.mask_op], g_src, g_tar)
            THEN conv_from_rgba(layout, greyscale_to_rgba(
                   output_after_mask(OutputOp[mode.output_op], g_src)))
            ELSE conv_from_rgba(layout, RGBA(g_tar, g_tar, g_tar, 255))
  IN write_pixel(layout, cc)

\* epaper_emulation::update, one pixel: the new pixel of the target
update_pixel(layout, mode, tar, c_src) ==
  LET g_tar == rgba_to_greyscale(conv_to_rgba(layout, read_pixel(tar)))
      g_src == output_before_mask(OutputOp[mode.output_op],
                                  rgba_to_greyscale(c_src))
      cc == IF ~masked(MaskOp[mode.mask_op], g_src, g_tar)
            THEN conv_from_rgba(layout, greyscale_to_rgba(
                   output_after_mask(OutputOp[mode.output_op], g_src)))
            ELSE conv_from_rgba(layout, greyscale_to_rgba(g_tar))
  IN write_pixel(layout, cc)

\* the update modes, and the sixteen greys as pixels of the composite buffer
UpdateModes ==
  {UpdateMode(o, m) : o \in DOMAIN OutputOp, m \in DOMAIN MaskOp}
Greys == {greyscale_to_rgba(g) : g \in 0..15}

Colours == {RGBA(255, 0, 0, 255), RGBA(18, 52, 86, 255)}

\* a region to update: any mode, a grey or a colour in the source and on the
\* screen
EpaperInputs ==
  /\ ep_mode \in UpdateModes
  /\ ep_src \in Greys \cup Colours
  /\ ep_tar \in {write_pixel(SdlLayout, conv_from_rgba(SdlLayout, c)) :
                   c \in Greys \cup Colours}
  /\ ep_hist = [updates |-> 0, before |-> <<0, 0, 0, 0>>,
                first |-> <<0, 0, 0, 0>>]

\* the screen of the SDL backend before the first commit
EpaperInit ==
  /\ ep_mode = UpdateMode("Identity", "Full")
  /\ ep_src = RGBA0
  /\ ep_tar = <<0, 0, 0, 0>>
  /\ ep_hist = [updates |-> 0, before |-> <<0, 0, 0, 0>>,
                first |-> <<0, 0, 0, 0>>]

\* epaper_emulation::update
EpUpdate ==
  /\ ep_tar' = update_pixel(SdlLayout, ep_mode, ep_tar, ep_src)
  /\ ep_hist' = [updates |-> ep_hist.updates + 1, before |-> ep_tar,
                 first |-> IF ep_hist.updates = 0 THEN ep_tar
                           ELSE ep_hist.first]
  /\ UNCHANGED <<ep_mode, ep_src>>
  /\ UNCHANGED not_epaper_vars

EpaperNext == ep_hist.updates < MaxUpdates /\ EpUpdate

(***************************************************************************)
(* MatrixRenderer (gfx/matrix_renderer.cpp)                                 *)
(***************************************************************************)
\* MonospaceFontMetrics of the font the renderer is constructed with
CellW == 1
CellH == 1

\* the rectangle the backend's do_lock gives the display of the renderer
RendererSurface == Rect(0, 0, MatCols * CellW, MatRows * CellH)

\* the thread the renderer runs in
RendererThread == 1

\* RGBA::White and RGBA::Black as colours of a Style
StyleWhite == 16777215
StyleBlack == 0

redraw_timeout_low == 250
redraw_timeout_high == 1000
update_counter_threshold_low == 1000
update_counter_threshold_high == 2000

\* MatrixRenderer::Impl::Cell::Cell()
RCell0 ==
  [cell |-> Cell0, last_update |-> 0, operation_counter |-> 0,
   is_low_quality |-> FALSE, is_high_quality |-> TRUE, is_overdue |-> TRUE,
   is_dirty |-> FALSE]

\* MatrixRenderer::Impl::update_geometry: the size of the cells, the number
\* of cells and the padding
update_geometry(bounds, o) ==
  LET w == Max(0, IF o % 2 = 1 THEN bounds.y1 - bounds.y0
                  ELSE bounds.x1 - bounds.x0)
      h == Max(0, IF o % 2 = 1 THEN bounds.x1 - bounds.x0
                  ELSE bounds.y1 - bounds.y0)
      cols == w \div CellW
      rows == h \div CellH
  IN [bounds |-> bounds, orientation |-> o, cols |-> cols, rows |-> rows,
      pad_x |-> (w - CellW * cols) \div 2,
      pad_y |-> (h - CellH * rows) \div 2,
      cell_w |-> CellW, cell_h |-> CellH,
      needs_geometry_update |-> FALSE]

\* MatrixRenderer::Impl::update_geometry: the cell metadata it allocates
fresh_cells(g) == [y \in 1..g.rows |-> [x \in 1..g.cols |-> RCell0]]

\* MatrixRenderer::Impl::get_coords
get_coords(g, row, col) ==
  LET x0 == col * g.cell_w
      x1 == x0 + g.cell_w
      y0 == row * g.cell_h
      y1 == y0 + g.cell_h
      b == g.bounds
  IN IF g.orientation = 1
     THEN Rect(b.x0 + g.pad_y + y0, b.y1 - g.pad_x - x1,
               b.x0 + g.pad_y + y1, b.y1 - g.pad_x - x0)
     ELSE IF g.orientation = 2
     THEN Rect(b.x1 - g.pad_x - x1, b.y1 - g.pad_y - y1,
               b.x1 - g.pad_x - x0, b.y1 - g.pad_y - y0)
     ELSE IF g.orientation = 3
     THEN Rect(b.x1 - g.pad_y - y1, b.y0 + g.pad_x + x0,
               b.x1 - g.pad_y - y0, b.y0 + g.pad_x + x1)
     ELSE Rect(b.x0 + g.pad_x + x0, b.y0 + g.pad_y + y0,
               b.x0 + g.pad_x + x1, b.y0 + g.pad_y + y1)

\* MatrixRenderer::Impl::draw_cell: the rectangle it returns, for a font
\* whose glyph bitmaps fill the cell. The pixels it paints on the layers of
\* the display (the dither pattern, the glyph bitmaps) are left out.
draw_cell(g, row, col, cell, erase, low_quality) ==
  LET swap == cell.cursor # cell.style.inverse
      fg == IF swap THEN cell.style.bg ELSE cell.style.fg
      bg == IF swap THEN cell.style.fg ELSE cell.style.bg
      r == get_coords(g, row, col)
      rendered == IF low_quality THEN fg # bg ELSE TRUE
      gr == IF rendered THEN Rect(r.x0, r.y0, r.x0 + g.cell_w,
                                  r.y0 + g.cell_h)
            ELSE r
      gr2 == Rect(r.x0 + 1, r.y0 + 1, r.x0 + 1 + g.cell_w,
                  r.y0 + 1 + g.cell_h)
      shadow == rendered /\ low_quality /\ bg # StyleWhite /\ bg # StyleBlack
  IN RectGrow(IF shadow THEN RectGrow(r, gr2) ELSE r, gr)

\* the loop of MatrixRenderer::Impl::draw that tightens the thresholds, on
\* one row of cells from cell x: finding a cell past the redraw timeout
\* leaves the row
RECURSIVE tighten_row(_, _, _)
tighten_row(row, x, th) ==
  IF x > Len(row) THEN th
  ELSE LET counter == IF row[x].operation_counter > th.counter
                      THEN update_counter_threshold_low
                      ELSE th.counter
       IN IF row[x].last_update > th.timeout
          THEN [counter |-> counter, timeout |-> redraw_timeout_low]
          ELSE tighten_row(row, x + 1,
                           [counter |-> counter, timeout |-> th.timeout])

\* the same loop over the rows from row y
RECURSIVE tighten(_, _, _)
tighten(cells, y, th) ==
  IF y > Len(cells) THEN th
  ELSE tighten(cells, y + 1, tighten_row(cells[y], 1, th))

\* a counter threshold a cell has to exceed
rule_counter_strict(c, threshold) == c.operation_counter > threshold

\* MatrixRenderer::Impl::draw: rule_counter
rule_counter(c, threshold) == c.operation_counter >= threshold

\* a redraw timeout a cell has to exceed
rule_timeout_strict(c, timeout) ==
  c.is_low_quality /\ c.last_update > timeout

\* MatrixRenderer::Impl::draw: rule_timeout
rule_timeout(c, timeout) == c.is_low_quality /\ c.last_update >= timeout

\* the cells (from 0) of a renderer of the given geometry, and those among
\* them that a predicate on the metadata selects
RCells(g) == {Point(x, y) : x \in 0..(g.cols - 1), y \in 0..(g.rows - 1)}
RAt(cells, p) == cells[p.y + 1][p.x + 1]

\* Rect::grow(const Point &) over a set of points
grow_points(b, ps) ==
  IF ps = {} THEN b
  ELSE Rect(Min(b.x0, CHOOSE v \in {p.x : p \in ps} :
                        \A p \in ps : v <= p.x),
            Min(b.y0, CHOOSE v \in {p.y : p \in ps} :
                        \A p \in ps : v <= p.y),
            Max(b.x1, CHOOSE v \in {p.x : p \in ps} :
                        \A p \in ps : v >= p.x),
            Max(b.y1, CHOOSE v \in {p.y : p \in ps} :
                        \A p \in ps : v >= p.y))

\* the cells of the update bounds that have the given flag set, in the order
\* a pass of MatrixRenderer::Impl::draw visits them
pass_targets(cells, b, flag) ==
  SelectSeq(Grid(Steps(b.x0, b.x1, 1), Steps(b.y0, b.y1, 1)),
            LAMBDA p : RAt(cells, p)[flag])

\* the rectangles a pass inserts into the merger
pass_rects(g, cells, matrix_cells, targets, low_quality) ==
  [i \in 1..Len(targets) |->
     LET p == targets[i]
         c == RAt(cells, p)
     IN RectGrow(draw_cell(g, p.y, p.x, c.cell, TRUE, c.is_low_quality),
                 draw_cell(g, p.y, p.x, RAt(matrix_cells, p), FALSE,
                           low_quality))]

\* the cell metadata after a pass
pass_cells(cells, matrix_cells, b, flag, low_quality) ==
  [y \in DOMAIN cells |-> [x \in DOMAIN cells[y] |->
     IF InRect(b, x - 1, y - 1) /\ cells[y][x][flag]
     THEN [cell |-> matrix_cells[y][x], operation_counter |-> 0,
           last_update |-> 0, is_high_quality |-> ~low_quality,
           is_low_quality |-> low_quality, is_overdue |-> FALSE,
           is_dirty |-> FALSE]
     ELSE cells[y][x]]]

\* RectangleMerger::reset
EmptyMerger ==
  [rects |-> <<>>, inserted |-> <<>>, from |-> <<>>, steps |-> <<>>]

\* the inserts of a pass, in order
RECURSIVE insert_all(_, _)
insert_all(m, rects) ==
  IF rects = <<>> THEN m
  ELSE insert_all(insert_into(m, Head(rects)), Tail(rects))

\* the merger after reset(), the inserts of a pass and merge()
pass_merger(rects) ==
  LET m == insert_all(EmptyMerger, rects)
      n == merge_all([rects |-> m.rects, from |-> m.from, steps |-> <<>>])
  IN [rects |-> n.rects, inserted |-> m.inserted, from |-> n.from,
      steps |-> n.steps]

\* the commits that follow a pass, one per rectangle of the merger
RECURSIVE enqueue_all(_, _, _, _)
enqueue_all(requests, surf, rects, mode) ==
  IF rects = <<>> THEN requests
  ELSE enqueue_all(enqueue(requests, surf, Head(rects), mode), surf,
                   Tail(rects), mode)

\* MatrixRenderer::Impl::draw: the check of the geometry, which resizes
\* the Matrix and allocates the cell metadata anew
draw_geometry ==
  LET stale == r_geometry.needs_geometry_update
      g == IF stale
           THEN update_geometry(r_geometry.bounds, r_geometry.orientation)
           ELSE r_geometry
  IN [geometry |-> g,
      matrix |-> IF stale THEN matrix_resize(g.rows, g.cols)
                 ELSE [size |-> m_size, cells |-> m_cells,
                       cells_alt |-> m_cells_alt, cells_old |-> m_cells_old,
                       update_bounds |-> m_update_bounds],
      cells |-> IF stale THEN fresh_cells(g) ELSE r_cells]

\* MatrixRenderer::Impl::draw: the redraw flag, the timers and the updates
\* the Matrix reports
draw_ingest(g, cells, bounds, redraw, dt, reported) ==
  LET seen == {p \in {reported[i].pos : i \in 1..Len(reported)} :
                 p.y <= g.rows /\ p.x <= g.cols}
  IN [cells |->
        [y \in DOMAIN cells |-> [x \in DOMAIN cells[y] |->
           [(IF redraw THEN RCell0 ELSE cells[y][x]) EXCEPT
              !.last_update = @ + dt,
              !.is_dirty = @ \/ (Point(x, y) \in seen)]]],
      bounds |->
        grow_points(IF redraw THEN grow_points(bounds, RCells(g))
                    ELSE bounds,
                    {Point(p.x - 1, p.y - 1) : p \in seen})]

\* the overdue detection with the operation counters incremented before
\* the update bounds are tested
draw_overdue_counting(g, cells, bounds, th) ==
  LET late(c) == rule_counter(c, th.counter) \/ rule_timeout(c, th.timeout)
  IN [cells |->
        [y \in DOMAIN cells |-> [x \in DOMAIN cells[y] |->
           [cells[y][x] EXCEPT !.is_overdue = @ \/ late(cells[y][x]),
                               !.operation_counter = @ + 1]]],
      bounds |-> grow_points(bounds,
                             {p \in RCells(g) : late(RAt(cells, p))})]

\* MatrixRenderer::Impl::draw: the cells the update rules find overdue
draw_overdue(g, cells, bounds, th) ==
  LET late(c) == rule_counter(c, th.counter) \/ rule_timeout(c, th.timeout)
  IN [cells |->
        [y \in DOMAIN cells |-> [x \in DOMAIN cells[y] |->
           [cells[y][x] EXCEPT !.is_overdue = @ \/ late(cells[y][x])]]],
      bounds |-> grow_points(bounds,
                             {p \in RCells(g) : late(RAt(cells, p))})]

\* MatrixRenderer::Impl::draw: the increment of the operation counters
draw_counted(cells) ==
  [y \in DOMAIN cells |-> [x \in DOMAIN cells[y] |->
     [cells[y][x] EXCEPT !.operation_counter = @ + 1]]]

\* MatrixRenderer::Impl::draw: MemoryDisplay::lock, which asks the backend
\* for its rectangle when the display is not locked yet
draw_lock(t) ==
  LET first == first_lock(d_locked) /\ RectValid(RendererSurface)
      n == IF first
           THEN resize(RectWidth(RendererSurface),
                       RectHeight(RendererSurface))
           ELSE [width |-> d_width, height |-> d_height,
                 stride |-> d_stride, composite |-> d_composite,
                 bg |-> d_layer_bg, presentation |-> d_layer_presentation]
  IN [buffers |-> n,
      surf |-> IF first THEN Rect(0, 0, n.width, n.height) ELSE d_surf_rect,
      origin |-> IF first THEN RendererSurface ELSE d_display_rect,
      hooks |-> IF first_lock(d_locked)
                THEN Append(d_hooks, [hook |-> "do_lock", thread |-> t,
                                      requests |-> <<>>])
                ELSE d_hooks,
      mutex |-> [owner |-> t, count |-> d_mutex.count + 1]]

\* the two passes of MatrixRenderer::Impl::draw: the flag that selects the
\* cells, the quality they are drawn in and the mode of the commits
LowQualityPass ==
  [flag |-> "is_dirty", low_quality |-> TRUE, mode |-> PassA]
HighQualityPass ==
  [flag |-> "is_overdue", low_quality |-> FALSE, mode |-> PassB]

\* MatrixRenderer::Impl::draw: one pass over the cells of the update bounds
\* that have the flag of the pass set, the merge of their rectangles and the
\* commits of the merged rectangles
draw_pass(g, cells, bounds, matrix_cells, requests, surf, pass) ==
  LET targets == pass_targets(cells, bounds, pass.flag)
      merger == pass_merger(pass_rects(g, cells, matrix_cells, targets,
                                       pass.low_quality))
  IN [cells |-> pass_cells(cells, matrix_cells, bounds, pass.flag,
                           pass.low_quality),
      merger |-> merger,
      requests |-> enqueue_all(requests, surf, merger.rects, pass.mode),
      inserts |-> Len(targets),
      commits |-> Len(merger.rects)]

\* MatrixRenderer::Impl::draw, run by the thread of the renderer while no
\* other thread holds the display: Matrix::commit, and when some cell has to
\* be drawn, lock(), the two passes with their commits, and unlock(). Each
\* step of the function is bound to its result in turn.
RDraw(redraws, dts) ==
  \E redraw \in redraws, dt \in dts :
  \E geo \in {draw_geometry} :
  \E cm \in {commit_result(geo.matrix.cells, geo.matrix.cells_old,
                           geo.matrix.update_bounds, geo.matrix.size,
                           m_pos, m_pos_old, m_cursor_visible,
                           m_cursor_visible_old)} :
  \E in \in {draw_ingest(geo.geometry, geo.cells, r_update_bounds, redraw,
                         dt, cm.updates)} :
  \E th \in {tighten(in.cells, 1,
                     [counter |-> update_counter_threshold_high,
                      timeout |-> redraw_timeout_high])} :
  \E s \in {draw_overdue(geo.geometry, in.cells, in.bounds, th)} :
  \E lk \in {draw_lock(RendererThread)} :
  \E pa \in {draw_pass(geo.geometry, draw_counted(s.cells), s.bounds,
                       cm.cells, d_commit_requests, lk.surf,
                       LowQualityPass)} :
  \E pb \in {draw_pass(geo.geometry, pa.cells, s.bounds, cm.cells,
                       pa.requests, lk.surf, HighQualityPass)} :
    LET t == RendererThread
        drew == RectValid(s.bounds)
        last == last_unlock(d_locked)
    IN /\ d_pc[t] = "ready"
       /\ d_mutex.count = 0 \/ d_mutex.owner = t
       \* Matrix
       /\ hist' = Recorded([op |-> "commit"])
       /\ chist' = commit_history(cm)
       /\ m_size' = geo.matrix.size
       /\ m_cells' = cm.cells
       /\ m_cells_old' = cm.old
       /\ m_cells_alt' = geo.matrix.cells_alt
       /\ m_update_bounds' = cm.bounds
       /\ updates' = cm.updates
       /\ m_pos_old' = m_pos
       /\ m_cursor_visible_old' = m_cursor_visible
       /\ UNCHANGED <<m_pos, m_pos_last, m_cursor_visible,
                      m_alternative_buffer_active>>
       \* MatrixRenderer
       /\ r_geometry' = geo.geometry
       /\ r_cells' = IF drew THEN pb.cells ELSE s.cells
       /\ r_update_bounds' = IF drew THEN RectInvalid ELSE s.bounds
       /\ r_hist' = [draws |-> r_hist.draws + 1,
                     call |-> [op |-> "draw", redraw |-> redraw, dt |-> dt],
                     quiet |-> IF r_hist.quiet < 0 THEN 0
                               ELSE r_hist.quiet + dt,
                     low_before |-> {q \in RCells(geo.geometry) :
                                       RAt(geo.cells, q).is_low_quality},
                     drew |-> drew,
                     timeout |-> th.timeout,
                     stale_low |->
                       \E q \in RCells(geo.geometry) :
                         rule_timeout_strict(RAt(in.cells, q),
                                             redraw_timeout_high)]
       \* RectangleMerger and MemoryDisplay
       /\ IF drew
          THEN /\ rm_rects' = pb.merger.rects
               /\ rm_hist' = [inserts |-> rm_hist.inserts + pa.inserts
                                          + pb.inserts,
                              merges |-> rm_hist.merges + 4,
                              call |-> "merge",
                              inserted |-> pb.merger.inserted,
                              from |-> pb.merger.from,
                              steps |-> pb.merger.steps]
               /\ d_width' = lk.buffers.width
               /\ d_height' = lk.buffers.height
               /\ d_stride' = lk.buffers.stride
               /\ d_layer_bg' = lk.buffers.bg
               /\ d_layer_presentation' = lk.buffers.presentation
               /\ d_display_rect' = lk.origin
               /\ d_surf_rect' = lk.surf
               /\ d_locked' = d_locked
               /\ d_composite' =
                    IF last
                    THEN compose_all(lk.buffers.composite, lk.buffers.bg,
                                     lk.buffers.presentation,
                                     lk.buffers.stride, pb.requests)
                    ELSE lk.buffers.composite
               /\ d_hooks' =
                    IF last
                    THEN Append(lk.hooks,
                                [hook |-> "do_unlock", thread |-> t,
                                 requests |->
                                   translated(pb.requests,
                                              Point(lk.origin.x0,
                                                    lk.origin.y0))])
                    ELSE lk.hooks
               /\ d_commit_requests' = IF last THEN <<>> ELSE pb.requests
               /\ d_mutex' = IF last THEN mutex_release(lk.mutex)
                             ELSE lk.mutex
               /\ d_hist' = [d_hist EXCEPT
                               !.locks = @ + 1,
                               !.commits = @ + pa.commits + pb.commits,
                               !.call = [op |-> "unlock", thread |-> t]]
               /\ UNCHANGED d_pc
          ELSE UNCHANGED <<merger_vars, display_vars>>
       /\ UNCHANGED <<epaper_vars, fbdev_vars, utf8_vars, sdl>>

\* the Matrix after Matrix::Matrix and the Matrix::resize of the renderer's
\* update_geometry, which asks for the size the Matrix has
RendererMatrixInit == MatrixInit

\* the display after the lock() and unlock() of MatrixRenderer::Impl::Impl
RendererDisplayInit ==
  LET w == RectWidth(RendererSurface)
      h == RectHeight(RendererSurface)
      blank == [i \in 1..((h * stride_of(w)) \div 4) |-> RGBA0]
  IN /\ d_locked = 0
     /\ d_width = w
     /\ d_height = h
     /\ d_stride = stride_of(w)
     /\ d_display_rect = RendererSurface
     /\ d_surf_rect = Rect(0, 0, w, h)
     /\ d_commit_requests = <<>>
     /\ d_composite = blank
     /\ d_layer_bg = blank
     /\ d_layer_presentation = blank
     /\ d_mutex = [owner |-> 0, count |-> 0]
     /\ d_pc = [t \in Threads |-> "ready"]
     /\ d_hooks = <<[hook |-> "do_lock", thread |-> RendererThread,
                     requests |-> <<>>],
                    [hook |-> "do_unlock", thread |-> RendererThread,
                     requests |-> <<>>]>>
     /\ d_hist = [locks |-> 1, draws |-> 0, commits |-> 0,
                  call |-> [op |-> "unlock", thread |-> RendererThread],
                  held |-> [t \in Threads |-> 0], foreign |-> FALSE]

\* MatrixRenderer::Impl::Impl with orientation 0
RendererInit ==
  LET g == update_geometry(Rect(0, 0, RectWidth(RendererSurface),
                                RectHeight(RendererSurface)), 0)
  IN /\ r_geometry = g
     /\ r_cells = fresh_cells(g)
     /\ r_update_bounds = RectInvalid
     /\ r_hist = [draws |-> 0, call |-> [op |-> "none"], quiet |-> -1,
                  low_before |-> {}, drew |-> FALSE,
                  timeout |-> redraw_timeout_high, stale_low |-> FALSE]

\* what the terminal driver hands to the Matrix
Pens ==
  {Pen(65, Style0), Pen(0, Style0), Pen(0, StyleAltFg), Pen(32, StyleAltFg),
   Pen(65, StyleInverse)}
SetPositions == {Point(1, 1), Point(2, 1), Point(0, 1)}
FullScreen == Rect(1, 1, MatCols, MatRows)
Budget == hist.n - hist.commits - hist.toggles < MaxOps

MatrixNext ==
  \/ Budget /\ MxSet(Pens, SetPositions)
  \/ Budget /\ MxFill({Pen(0, Style0), Pen(65, Style0)}, {Point(1, 1)},
                      {Point(MatCols, MatRows), Point(2, 1)})
  \/ Budget /\ MxMoveAbs({Point(2, 1), Point(MatCols, MatRows + 1)})
  \/ Budget /\ MxCursorVisible
  \/ Budget /\ MxWrite({Pen(65, Style0)}, BOOLEAN)
  \/ Budget /\ MxScroll({Pen(0, Style0)}, {FullScreen, Rect(2, 1, 1, 1)},
                        {Point(0, 1), Point(1, 0), Point(-1, 0), Point(0, 0)})
  \/ hist.commits < MaxCommits /\ MxCommit

\* the Matrix under a terminal that conceals, emphasises and blanks cells
StyleConcealed == [Style0 EXCEPT !.concealed = TRUE]
StyleBold == [Style0 EXCEPT !.bold = TRUE]
StyleUnderline == [Style0 EXCEPT !.underline = 1]

AttributeNext ==
  \/ Budget /\ MxSet({Pen(65, Style0), Pen(65, StyleConcealed),
                      Pen(66, StyleAltFg), Pen(32, StyleBold),
                      Pen(0, StyleUnderline), Pen(0, StyleInverse)},
                     {Point(1, 1), Point(2, 1)})
  \/ Budget /\ MxMoveAbs({Point(2, 1)})
  \/ hist.commits < MaxCommits + 1 /\ MxCommit

\* the Matrix with its alternative buffer
AltBudget == hist.n - hist.commits - hist.toggles < MaxAltOps

AltNext ==
  \/ AltBudget /\ MxSet({Pen(65, Style0), Pen(0, StyleAltFg)},
                          {Point(1, 1), Point(2, 1)})
  \/ AltBudget /\ MxMoveAbs({Point(2, 1)})
  \/ AltBudget /\ MxScroll({Pen(0, Style0)}, {FullScreen}, {Point(0, 1)})
  \/ hist.toggles < MaxToggles /\ MxSetAlternativeBufferActive
  \/ hist.commits < MaxCommits /\ MxCommit

(***************************************************************************)
(* FbDevDisplay: the frame buffer backend                                  *)
(***************************************************************************)
\* the frame buffer: FbW x FbH pixels of 16 bits (5 red, 6 green, 5 blue)
FbW == 2
FbH == 1
MaxFbUnlocks == 2
MaxFbRequests == 2

FbLayout ==
  [bpp |-> 16, rr |-> 3, rl |-> 11, gr |-> 2, gl |-> 5, br |-> 3, bl |-> 0,
   ar |-> 8, al |-> 0]

FbPixels == {Point(x, y) : x \in 0..(FbW - 1), y \in 0..(FbH - 1)}

\* the update marker of epaper_mxc_update
MARKER == 1247342972

\* an ioctl call on the frame buffer device; mode is the UpdateMode of the
\* commit request on whose behalf the call is made
Ioctl(request, region, waveform_mode, flags, marker, mode) ==
  [request |-> request, region |-> region, waveform_mode |-> waveform_mode,
   update_mode |-> IF request = "MXCFB_SEND_UPDATE"
                   THEN "UPDATE_MODE_PARTIAL" ELSE "",
   flags |-> flags, marker |-> marker, mode |-> mode]

\* FbDevDisplay::epaper_mxc_update: the ioctl calls it makes
epaper_mxc_update(region, flags, mode) ==
  <<Ioctl("MXCFB_SEND_UPDATE", region, "WAVEFORM_MODE_A2", {}, MARKER, mode),
    Ioctl("MXCFB_WAIT_FOR_UPDATE_COMPLETE", region, "", {}, MARKER, mode)>>

\* kobo_eink_update_partial waiting for the marker it is about to send
kobo_eink_update_partial_own_marker(dev, mono, region, mode) ==
  LET marker == IF dev.marker + 1 > 1024 THEN 1 ELSE dev.marker + 1
  IN [dev |-> [dev EXCEPT !.marker = marker, !.prev_marker = marker,
                          !.mono_no = IF mono THEN @ + 1 ELSE 0],
      ioctls |-> <<Ioctl("MXCFB_WAIT_FOR_UPDATE_COMPLETE", region, "", {},
                         marker, mode),
                   Ioctl("MXCFB_SEND_UPDATE", region, "4",
                         {"EPDC_FLAG_FORCE_MONOCHROME"}, marker, mode)>>]

\* kobo_eink_update_partial: the static variables after the call and the
\* ioctl calls it makes
kobo_eink_update_partial(dev, mono, region, mode) ==
  LET marker == IF dev.marker + 1 > 1024 THEN 1 ELSE dev.marker + 1
      wait == IF dev.prev_marker # 0
              THEN <<Ioctl("MXCFB_WAIT_FOR_UPDATE_COMPLETE", region, "", {},
                           dev.prev_marker, mode)>>
              ELSE <<>>
      waveform_mode == IF mono /\ dev.mono_no # 0
                       THEN "4" ELSE "WAVEFORM_MODE_AUTO"
      flags == IF mono THEN {"EPDC_FLAG_FORCE_MONOCHROME"} ELSE {}
  IN [dev |-> [dev EXCEPT !.marker = marker, !.prev_marker = marker,
                          !.mono_no = IF mono THEN @ + 1 ELSE 0],
      ioctls |-> wait \o <<Ioctl("MXCFB_SEND_UPDATE", region, waveform_mode,
                                 flags, marker, mode)>>]

\* FbDevDisplay::do_unlock, the copy of one commit request: the pixels of
\* the rectangle are converted to the layout of the frame buffer
copy_request(fb, r, buf) ==
  [p \in DOMAIN fb |->
     IF r.x0 <= p.x /\ p.x < r.x1 /\ r.y0 <= p.y /\ p.y < r.y1
     THEN write_pixel(FbLayout, conv_from_rgba(FbLayout, buf[p]))
     ELSE fb[p]]

\* FbDevDisplay::do_unlock: the loop over the commit requests
RECURSIVE do_unlock_requests(_, _, _)
do_unlock_requests(st, reqs, buf) ==
  IF reqs = <<>> THEN st
  ELSE LET req == Head(reqs)
           region == [left |-> req.r.x0, top |-> req.r.y0,
                      width |-> RectWidth(req.r),
                      height |-> RectHeight(req.r)]
           kobo == kobo_eink_update_partial(st.dev, TRUE, region, req.mode)
           copied == copy_request(st.buf, req.r, buf)
       IN do_unlock_requests(
            IF st.dev.build = "kobo"
            THEN [dev |-> kobo.dev, buf |-> copied,
                  ioctl |-> st.ioctl \o kobo.ioctls]
            ELSE [dev |-> st.dev, buf |-> copied,
                  ioctl |-> IF st.dev.type = "EPaper"
                            THEN st.ioctl \o
                                   epaper_mxc_update(region, {}, req.mode)
                            ELSE st.ioctl],
            Tail(reqs), buf)

\* FbDevDisplay::FbDevDisplay on an e-paper frame buffer ("mxc_epdc_fb"),
\* in the revision that updates through epaper_mxc_update
FbDevConstructed(build, type) ==
  /\ fb_dev = [build |-> build, type |-> type, marker |-> 1,
               prev_marker |-> 0, mono_no |-> 0]
  /\ fb_buf = [p \in FbPixels |-> write_pixel(FbLayout, {})]
  /\ fb_ioctl = <<>>
  /\ fb_hist = [unlocks |-> 0]

FbDevInit == FbDevConstructed("mxc", "EPaper")

\* FbDevDisplay::do_unlock
FbDoUnlock(requests, bufs) ==
  \E reqs \in requests, buf \in bufs :
    \E st \in {do_unlock_requests([dev |-> fb_dev, buf |-> fb_buf,
                                    ioctl |-> fb_ioctl], reqs, buf)} :
      /\ fb_dev' = st.dev
      /\ fb_buf' = st.buf
      /\ fb_ioctl' = st.ioctl
      /\ fb_hist' = [fb_hist EXCEPT !.unlocks = @ + 1]
      /\ UNCHANGED not_fbdev_vars

\* what MemoryDisplay hands to the backend: up to MaxFbRequests commit
\* requests of the two passes of the renderer, and a composite buffer
FbRequests ==
  UNION {[1..n -> {[r |-> Rect(0, 0, 1, 1), mode |-> m] : m \in {PassA, PassB}}]
           : n \in 0..MaxFbRequests}

FbComposites == {[p \in FbPixels |-> c] : c \in {White, Ink}}

FbDevNext ==
  \/ fb_dev.build = "mxc" /\ fb_hist.unlocks < MaxFbUnlocks /\
       FbDoUnlock(FbRequests, FbComposites)
  \/ fb_dev.build = "kobo" /\ fb_hist.unlocks < MaxFbUnlocks /\
       FbDoUnlock(FbRequests, FbComposites)

(***************************************************************************)
(* UTF8Decoder                                                             *)
(***************************************************************************)
MaxFeeds == 6

\* UTF8Decoder::Status
Status(codepoint, is_valid, replaces_last, error) ==
  [codepoint |-> codepoint, valid |-> is_valid,
   replaces_last |-> replaces_last, error |-> error]
StatusContinue == Status(0, FALSE, FALSE, FALSE)
StatusCodepoint(codepoint, replaces_last) ==
  Status(codepoint, TRUE, replaces_last, FALSE)
StatusError == Status(0, TRUE, FALSE, TRUE)

\* the canonical combining class of a code point: 230 for the combining
\* diaeresis U+0308, 0 for the starters used here
combining_class(cp) == IF cp = 776 THEN 230 ELSE 0

\* the primary composite of a starter and a combining mark, 0 if none:
\* 'u' and U+0308 give U+00FC, 'A' and U+0308 give U+00C4
composition(starter, mark) ==
  IF mark # 776 THEN 0
  ELSE IF starter = 117 THEN 252
  ELSE IF starter = 65 THEN 196
  ELSE 0

\* utf8proc_normalize_utf32 with UTF8PROC_COMPOSE: the composed buffer.
\* st holds the buffer written so far, the index of the current starter in
\* it (0: none) and the highest combining class seen since that starter.
RECURSIVE compose_from(_, _, _)
compose_from(st, buf, rpos) ==
  IF rpos > Len(buf) THEN st.out
  ELSE LET c == buf[rpos]
           cls == combining_class(c)
           comp == IF st.starter # 0 /\ cls > st.max_class
                   THEN composition(st.out[st.starter], c) ELSE 0
       IN IF comp > 0
          THEN compose_from([st EXCEPT !.out[st.starter] = comp], buf,
                            rpos + 1)
          ELSE compose_from(
                 IF cls # 0
                 THEN [st EXCEPT !.out = Append(@, c),
                                 !.max_class = Max(@, cls)]
                 ELSE [out |-> Append(st.out, c), starter |-> Len(st.out) + 1,
                       max_class |-> -1],
                 buf, rpos + 1)

utf8proc_normalize_utf32(buf) ==
  compose_from([out |-> <<>>, starter |-> 0, max_class |-> -1], buf, 1)

\* the size of m_cp_buf
CpBufSize == 4

UTF8Fresh == [m_cp |-> 0, m_cp_buf |-> <<>>, m_n_continuation_bytes |-> 0]

\* UTF8Decoder::feed, the code point is complete: it is appended to the
\* buffer of code points, which is then normalised
feed_codepoint(dec) ==
  LET buf == IF Len(dec.m_cp_buf) = CpBufSize
             THEN Append(Tail(dec.m_cp_buf), dec.m_cp)
             ELSE Append(dec.m_cp_buf, dec.m_cp)
      norm == utf8proc_normalize_utf32(buf)
  IN IF Len(norm) < Len(buf)
     THEN [dec |-> [dec EXCEPT !.m_cp_buf = norm, !.m_cp = norm[Len(norm)]],
           status |-> StatusCodepoint(norm[Len(norm)], TRUE)]
     ELSE [dec |-> [dec EXCEPT !.m_cp_buf = norm],
           status |-> StatusCodepoint(dec.m_cp, FALSE)]

\* a shift to the left by 8 * k bits, as a factor
Shift6_bytes(k) == <<1, 256, 65536, 16777216>>[k + 1]

\* a shift to the left by 6 * k bits, as a factor
Shift6(k) == <<1, 64, 4096, 262144>>[k + 1]

\* UTF8Decoder::feed: the decoder after the byte c and the Status returned.
\* The bits or-ed into m_cp by a continuation byte are zero in m_cp, so the
\* or is a sum.
feed(dec, c) ==
  LET error == [dec |-> UTF8Fresh, status |-> StatusError]
      n == dec.m_n_continuation_bytes
      started(cp, k) ==
        [dec EXCEPT !.m_cp = cp, !.m_n_continuation_bytes = k]
      next ==
        IF c \div 64 = 2
        THEN IF n = 0 THEN error
             ELSE [dec |-> [dec EXCEPT
                              !.m_n_continuation_bytes = n - 1,
                              !.m_cp = @ + (c % 64) * Shift6(n - 1)]]
        ELSE IF n > 0 THEN error
        ELSE IF c \div 128 = 0 THEN [dec |-> started(c, 0)]
        ELSE IF c \div 32 = 6 THEN [dec |-> started((c % 32) * Shift6(1), 1)]
        ELSE IF c \div 16 = 14 THEN [dec |-> started((c % 16) * Shift6(2), 2)]
        ELSE IF c \div 8 = 30 THEN [dec |-> started((c % 8) * Shift6(3), 3)]
        ELSE error
  IN IF "status" \in DOMAIN next THEN next
     ELSE IF next.dec.m_n_continuation_bytes # 0
     THEN [dec |-> next.dec, status |-> StatusContinue]
     ELSE feed_codepoint(next.dec)

\* UTF8Encoder::unicode_to_utf8: the bytes of the encoding of a code point
unicode_to_utf8(glyph) ==
  IF glyph < 128 THEN <<glyph>>
  ELSE IF glyph < 2048
  THEN <<192 + ((glyph \div 64) % 128), 128 + (glyph % 64)>>
  ELSE IF glyph < 65536
  THEN <<224 + ((glyph \div 4096) % 128), 128 + ((glyph \div 64) % 64),
         128 + (glyph % 64)>>
  ELSE <<240 + ((glyph \div 262144) % 128), 128 + ((glyph \div 4096) % 64),
         128 + ((glyph \div 64) % 64), 128 + (glyph % 64)>>

\* UTF8Decoder::UTF8Decoder
UTF8DecoderInit ==
  /\ u8_dec = UTF8Fresh
  /\ u8_hist = [fed |-> 0, byte |-> 0, cps |-> <<>>, pending |-> <<>>,
                wellformed |-> TRUE, status |-> StatusContinue,
                reported |-> 0]

\* the last code point reported by the decoder
Reporting(status, before) ==
  IF status.valid /\ ~status.error THEN status.codepoint ELSE before

\* UTF8Decoder::feed with the first byte of the encoding of a code point
UFeedFirst(codepoints) ==
  \E cp \in codepoints :
    \E bytes \in {unicode_to_utf8(cp)} :
      \E r \in {feed(u8_dec, Head(bytes))} :
        /\ u8_hist.pending = <<>>
        /\ u8_dec' = r.dec
        /\ u8_hist' = [u8_hist EXCEPT
                         !.fed = @ + 1, !.byte = Head(bytes),
                         !.cps = Append(@, cp),
                         !.pending = Tail(bytes), !.status = r.status,
                         !.reported = Reporting(u8_hist.status, @)]
        /\ UNCHANGED not_utf8_vars

\* UTF8Decoder::feed with the next byte of the encoding being fed
UFeedNext ==
  /\ u8_hist.pending # <<>>
  /\ \E r \in {feed(u8_dec, Head(u8_hist.pending))} :
       /\ u8_dec' = r.dec
       /\ u8_hist' = [u8_hist EXCEPT
                        !.fed = @ + 1, !.byte = Head(u8_hist.pending),
                        !.pending = Tail(@),
                        !.status = r.status,
                        !.reported = Reporting(u8_hist.status, @)]
       /\ UNCHANGED not_utf8_vars

\* UTF8Decoder::feed with a byte that is not the next byte of a well-formed
\* sequence
UFeedStray(bytes) ==
  \E c \in bytes :
    \E r \in {feed(u8_dec, c)} :
      /\ u8_dec' = r.dec
      /\ u8_hist' = [u8_hist EXCEPT
                       !.fed = @ + 1, !.byte = c, !.pending = <<>>,
                       !.wellformed = FALSE, !.status = r.status,
                       !.reported = Reporting(u8_hist.status, @)]
      /\ UNCHANGED not_utf8_vars

\* 'A', 'u', U+00F8, the combining diaeresis U+0308, U+20AC and U+1F92A
CodePoints == {65, 117, 248, 776, 8364, 129322}

UTF8Next ==
  \/ u8_hist.fed < MaxFeeds /\ UFeedFirst(CodePoints)
  \/ u8_hist.fed < MaxFeeds /\ UFeedNext
  \/ u8_hist.fed < MaxFeeds /\ u8_hist.wellformed /\ UFeedStray({255})
  \/ u8_hist.fed < MaxFeeds /\ u8_hist.wellformed /\
       u8_hist.pending = <<>> /\ UFeedStray({128})

\* no MatrixRenderer has been constructed
RendererNone ==
  /\ r_cells = <<>>
  /\ r_update_bounds = RectInvalid
  /\ r_geometry = [bounds |-> Rect(0, 0, 0, 0), orientation |-> 0,
                   cols |-> 0, rows |-> 0, pad_x |-> 0, pad_y |-> 0,
                   cell_w |-> 0, cell_h |-> 0,
                   needs_geometry_update |-> TRUE]
  /\ r_hist = [draws |-> 0, call |-> [op |-> "none"], quiet |-> -1,
               low_before |-> {}, drew |-> FALSE,
               timeout |-> redraw_timeout_high, stale_low |-> FALSE]

(***************************************************************************)
(* SDLBackend: the handshake of lock() and unlock() with the GUI thread    *)
(***************************************************************************)
MaxSdlCycles == 2
MaxSdlInputs == 2

\* SDLBackend::Impl::Impl: m_locked(false), m_pixels(nullptr),
\* m_surf(nullptr); the GUI thread has initialised SDL
SdlInit ==
  sdl = [main |-> "idle", queue |-> <<>>, m_locked |-> FALSE,
         m_surf |-> FALSE, m_pixels |-> FALSE, forwarded |-> 0,
         cycles |-> 0, inputs |-> 0]

\* std::condition_variable::notify_one: a thread blocked in wait() wakes
\* and evaluates its predicate again; no thread blocked, no effect
notify_one(main) ==
  CASE main = "lock_wait" -> "lock_check"
    [] main = "unlock_wait" -> "unlock_check"
    [] OTHER -> main

\* SDLBackend::Impl::lock up to the first evaluation of the predicate
SdlLock ==
  /\ sdl.main = "idle" /\ sdl.cycles < MaxSdlCycles
  /\ sdl' = [sdl EXCEPT !.main = "lock_check",
                        !.queue = Append(@, "lock"),
                        !.cycles = @ + 1]

\* m_gui_cond_var.wait(lock, pred): the predicate is evaluated with the
\* mutex held, which the GUI thread never takes; lock() returns when
\* m_locked is set, unlock() when it is not
SdlCheck ==
  \/ /\ sdl.main = "lock_check"
     /\ sdl' = [sdl EXCEPT !.main = IF sdl.m_locked THEN "held"
                                    ELSE "lock_block"]
  \/ /\ sdl.main = "unlock_check"
     /\ sdl' = [sdl EXCEPT !.main = IF ~sdl.m_locked THEN "idle"
                                    ELSE "unlock_block"]

\* m_gui_cond_var.wait(lock): the thread blocks
SdlBlock ==
  \/ /\ sdl.main = "lock_block"
     /\ sdl' = [sdl EXCEPT !.main = "lock_wait"]
  \/ /\ sdl.main = "unlock_block"
     /\ sdl' = [sdl EXCEPT !.main = "unlock_wait"]

\* SDLBackend::Impl::unlock up to the first evaluation of the predicate:
\* without m_pixels it returns at once
SdlUnlock ==
  /\ sdl.main = "held"
  /\ sdl' = IF ~sdl.m_pixels THEN [sdl EXCEPT !.main = "idle"]
            ELSE [sdl EXCEPT !.main = "unlock_check",
                             !.queue = Append(@, "unlock")]

\* the window system pushes an input event
SdlInput ==
  /\ sdl.inputs < MaxSdlInputs
  /\ sdl' = [sdl EXCEPT !.queue = Append(@, "input"), !.inputs = @ + 1]

\* sdl_main_thread: one event of the loop; SDL_GetWindowSurface is called
\* when there is no surface or the window has another size, and may fail
SdlGui ==
  /\ sdl.queue # <<>>
  /\ \E resized \in BOOLEAN, fetched \in BOOLEAN :
       LET event == Head(sdl.queue)
           surf == IF ~sdl.m_surf \/ resized THEN fetched ELSE sdl.m_surf
       IN sdl' =
            CASE event = "lock" ->
                   [sdl EXCEPT !.queue = Tail(@), !.m_surf = surf,
                               !.m_pixels = surf, !.m_locked = TRUE,
                               !.main = notify_one(@)]
              [] event = "unlock" ->
                   IF sdl.m_surf
                   THEN [sdl EXCEPT !.queue = Tail(@), !.m_locked = FALSE,
                                    !.m_pixels = FALSE,
                                    !.main = notify_one(@)]
                   ELSE [sdl EXCEPT !.queue = Tail(@)]
              [] OTHER ->
                   [sdl EXCEPT !.queue = Tail(@), !.forwarded = @ + 1]

SdlFrame ==
  UNCHANGED <<matrix_vars, display_vars, merger_vars, epaper_vars,
              fbdev_vars, utf8_vars, renderer_vars, loop>>

SdlNext ==
  \/ SdlLock /\ SdlFrame
  \/ SdlCheck /\ SdlFrame
  \/ SdlBlock /\ SdlFrame
  \/ SdlUnlock /\ SdlFrame
  \/ SdlInput /\ SdlFrame
  \/ SdlGui /\ SdlFrame

(***************************************************************************)
(* The event loop (Inktty::Impl)                                           *)
(***************************************************************************)
\* the redraw interval of run() in microseconds
FrameInterval == 16667

\* the clock is followed up to this many microseconds after m_t_last_draw
MaxElapsed == 17000

\* the division of C++ integers rounds towards zero
TruncDiv(a, b) == IF a >= 0 THEN a \div b ELSE -((-a) \div b)

\* run(): timeout = (16667 - (t - m_t_last_draw)) / 1000
run_timeout(elapsed) == TruncDiv(FrameInterval - elapsed, 1000)

\* run(): if (timeout <= 0)
run_draws_negative(timeout) == timeout < 0
run_draws(timeout) == timeout <= 0

\* Inktty::Impl::Impl: m_t_last_draw(microtime()), m_needs_redraw(false)
LoopInit ==
  loop = [pc |-> "top", elapsed |-> 0, needs_redraw |-> FALSE,
          done |-> FALSE, timeout |-> -1, drew |-> FALSE, since |-> 0]

\* the microseconds after which an event reaches Event::wait
Arrivals == {1000, 16000}

EventTypes == {"KEY_INPUT", "QUIT", "CHILD_OUTPUT"}

Later(d) == Min(MaxElapsed, loop.elapsed + d)

\* run(), from while (!done) to the call of Event::wait, as far as the
\* members of the loop go
LoopTurn ==
  /\ loop.pc = "top" /\ ~loop.done
  /\ LET timeout == run_timeout(loop.elapsed)
     IN loop' = IF loop.needs_redraw /\ run_draws(timeout)
                THEN [loop EXCEPT !.pc = "wait", !.elapsed = 0,
                                  !.needs_redraw = FALSE, !.timeout = -1,
                                  !.drew = TRUE,
                                  !.since = loop.elapsed \div 1000]
                ELSE [loop EXCEPT !.pc = "wait",
                        !.timeout = IF loop.needs_redraw THEN timeout
                                    ELSE -1]

\* run(), from while (!done) to the call of Event::wait: draw() is called
\* without arguments, which are redraw = false and dt = 0
LoopTop ==
  /\ LoopTurn
  /\ IF loop.needs_redraw /\ run_draws(run_timeout(loop.elapsed))
     THEN RDraw({FALSE}, {0})
     ELSE UNCHANGED <<matrix_vars, display_vars, merger_vars, epaper_vars,
                      fbdev_vars, utf8_vars, renderer_vars, sdl>>

\* Event::wait returns -1 once poll() has waited for the timeout
LoopWaitTimeout ==
  /\ loop.pc = "wait" /\ loop.timeout >= 0
  /\ loop' = [loop EXCEPT !.pc = "top",
                          !.elapsed = Later(loop.timeout * 1000)]
  /\ UNCHANGED <<matrix_vars, display_vars, merger_vars, epaper_vars,
                 fbdev_vars, utf8_vars, renderer_vars, sdl>>

\* Event::wait returns an event that arrived within the timeout, and
\* handle_event is entered: the key goes to the terminal, QUIT ends the
\* loop and the child's output is handed to the terminal
LoopWaitEvent ==
  \E d \in Arrivals, type \in EventTypes :
    /\ loop.pc = "wait"
    /\ loop.timeout < 0 \/ d <= loop.timeout * 1000
    /\ type = "CHILD_OUTPUT" => r_hist.draws < MaxDrawPasses
    /\ loop' = [loop EXCEPT
                  !.pc = IF type = "CHILD_OUTPUT" THEN "receive" ELSE "top",
                  !.elapsed = Later(d),
                  !.done = (type = "QUIT")]
    /\ UNCHANGED <<matrix_vars, display_vars, merger_vars, epaper_vars,
                   fbdev_vars, utf8_vars, renderer_vars, sdl>>

\* handle_event, CHILD_OUTPUT: receive_from_pty writes to the Matrix
LoopReceive ==
  /\ loop.pc = "receive" /\ Budget
  /\ MxSet({Pen(65, StyleInverse)}, {Point(1, 1), Point(MatCols, MatRows)})

\* handle_event, CHILD_OUTPUT: m_needs_redraw = true
LoopHandled ==
  /\ loop.pc = "receive"
  /\ loop' = [loop EXCEPT !.pc = "top", !.needs_redraw = TRUE,
                          !.drew = FALSE]
  /\ UNCHANGED <<matrix_vars, display_vars, merger_vars, epaper_vars,
                 fbdev_vars, utf8_vars, renderer_vars, sdl>>

Init ==
  /\ MatrixInit /\ DisplayInit /\ MergerInit /\ EpaperInit /\ RendererNone
  /\ FbDevInit /\ UTF8DecoderInit /\ LoopInit /\ SdlInit

SpecMatrix == Init /\ [][MatrixNext]_vars

SpecAlt == Init /\ [][AltNext]_vars

SpecAttributes == Init /\ [][AttributeNext]_vars

\* the cursor under moves, writes, scrolls, resizes, resets and buffer
\* toggles
CursorBudget == hist.n < MaxCursorOps

CursorNext ==
  \/ CursorBudget /\ MxSet({Pen(65, Style0)}, {Point(2, 1)})
  \/ CursorBudget /\ MxMoveAbs({Point(MatCols, MatRows), Point(0, 0)})
  \/ CursorBudget /\
       MxMoveRel({Point(1, 0), Point(-1, 0), Point(0, 1), Point(MatCols, 0)},
                 BOOLEAN)
  \/ CursorBudget /\ MxWrite({Pen(66, Style0)}, {FALSE})
  \/ CursorBudget /\
       MxScroll({Pen(0, Style0)}, {Rect(1, 1, 2, 2)}, {Point(0, 1)})
  \/ CursorBudget /\ MxResize({Point(2, 2), Point(MatCols + 1, MatRows + 1)})
  \/ CursorBudget /\ MxReset
  \/ CursorBudget /\ MxSetAlternativeBufferActive
  \/ CursorBudget /\ MxCursorVisible

SpecCursor == Init /\ [][CursorNext]_vars

\* a terminal of two rows and two columns that receives the characters
\* '1', '2', ... one write at a time, with commits in between
Writes == hist.n - hist.commits

WriteNext ==
  \/ Writes < MaxWrites /\ MxWrite({Pen(49 + Writes, Style0)}, {FALSE})
  \/ hist.call.op # "commit" /\ MxCommit

InitWrite ==
  /\ MatrixConstructed(2, 2)
  /\ DisplayInit /\ MergerInit /\ EpaperInit /\ RendererNone
  /\ FbDevInit /\ UTF8DecoderInit /\ LoopInit /\ SdlInit

SpecWrite == InitWrite /\ [][WriteNext]_vars

\* the Matrix under scroll calls of the terminal driver
ScrollNext ==
  \/ hist.n < MaxScrollOps /\
       MxSet({Pen(65, Style0), Pen(66, StyleAltFg)},
             {Point(1, 1), Point(2, 1), Point(MatCols, MatRows)})
  \/ hist.n < MaxScrollOps /\
       MxScroll({Pen(0, Style0), Pen(65, StyleInverse)},
                {FullScreen, Rect(2, 1, MatCols, MatRows)},
                {Point(1, 0), Point(-1, 0), Point(0, 1), Point(0, -1),
                 Point(1, 1), Point(-1, -1), Point(0, 0)})
  \/ hist.n < MaxScrollOps /\
       MxScroll({Pen(0, Style0)}, {Rect(2, 1, 1, 1)}, {Point(0, 1)})

SpecScroll == Init /\ [][ScrollNext]_vars

SpecLock == Init /\ [][LockNext]_vars

SpecCompose == Init /\ [][ComposeNext]_vars

\* the display when the backend gives a surface to the first lock() and
\* none to the following ones
StaleLockNext ==
  \/ d_hist.locks = 0 /\ DLock(1, {Surface, SurfaceMoved})
  \/ d_hist.locks \in 1..MaxLocks /\ d_locked = 0 /\
       DLock(1, {RectInvalid})
  \/ d_locked > 0 /\ DUnlock(1)
  \/ d_hist.commits < MaxRequests /\
       DCommit(1, {RectInvalid, Rect(0, 0, 1, SurfH)}, {PassA, PassB})
  \/ d_hist.draws < MaxDraws /\
       DFill(1, {[layer |-> "Background", c |-> White, r |-> Surface],
                 [layer |-> "Presentation", c |-> Veil,
                  r |-> Rect(0, 0, 1, 1)]})
  \/ d_hist.draws < MaxDraws /\
       DBlit(1, {[layer |-> "Presentation", c |-> Ink, mask |-> Glyph,
                  r |-> Surface, mode |-> "Write"]})

SpecStaleLock == Init /\ [][StaleLockNext]_vars

\* the display on a backend whose surface changes its size between lock
\* cycles: taller, wider, or both
ResizeNext ==
  \/ d_hist.locks < MaxLocks + 1 /\ d_locked = 0 /\
       DLock(1, {Surface, Rect(0, 0, SurfW, SurfH + 1),
                 Rect(0, 0, SurfW + 1, SurfH),
                 Rect(0, 0, SurfW + 1, SurfH + 1), SurfaceMoved})
  \/ d_locked > 0 /\ DUnlock(1)
  \/ d_hist.draws < MaxDraws /\
       DFill(1, {[layer |-> "Background", c |-> White, r |-> Surface],
                 [layer |-> "Presentation", c |-> Veil,
                  r |-> Rect(0, 0, SurfW + 1, SurfH + 1)]})

SpecResize == Init /\ [][ResizeNext]_vars

SpecMerger == Init /\ [][MergerNext]_vars

\* the frame buffer backend after construction, in either revision and on
\* either type of screen
InitFbDev ==
  /\ MatrixInit /\ DisplayInit /\ MergerInit /\ EpaperInit /\ RendererNone
  /\ \E build \in {"mxc", "kobo"}, type \in {"EPaper", "Generic"} :
       FbDevConstructed(build, type)
  /\ UTF8DecoderInit /\ LoopInit /\ SdlInit

SpecFbDev == InitFbDev /\ [][FbDevNext]_vars

SpecUTF8 == Init /\ [][UTF8Next]_vars

\* the state after construction, with a region to update
InitEpaper ==
  /\ MatrixInit /\ DisplayInit /\ MergerInit /\ EpaperInputs /\ RendererNone
  /\ FbDevInit /\ UTF8DecoderInit /\ LoopInit /\ SdlInit

SpecEpaper == InitEpaper /\ [][EpaperNext]_vars

\* the terminal writes to the Matrix while a caller of draw(redraw, dt)
\* passes the milliseconds since the last call
FrameTimes == {16, 500, 1000}

RendererNext ==
  \/ Budget /\ MxSet({Pen(65, StyleInverse)},
                     {Point(1, 1), Point(MatCols, MatRows)})
  \/ Budget /\ MxMoveAbs({Point(2, 1)})
  \/ r_hist.draws < MaxDrawPasses /\ RDraw({FALSE}, FrameTimes) /\
       UNCHANGED loop
  \/ r_hist.draws < MaxDrawPasses /\ RDraw({TRUE}, {16}) /\ UNCHANGED loop

InitRenderer ==
  /\ RendererMatrixInit
  /\ RendererDisplayInit
  /\ MergerInit
  /\ EpaperInit
  /\ FbDevInit /\ UTF8DecoderInit /\ LoopInit /\ SdlInit
  /\ RendererInit

SpecRenderer == InitRenderer /\ [][RendererNext]_vars

\* a long session: before every draw() the terminal writes to the first
\* cell a glyph other than the one it shows, and the other cells are left
\* alone
MaxLongDraws == 2002

Retyped ==
  {pen \in {Pen(65, StyleInverse), Pen(66, Style0)} :
     pen.glyph # m_cells[1][1].glyph}

LongNext ==
  \/ r_hist.draws < MaxLongDraws /\ hist.ops = {} /\
       MxSet(Retyped, {Point(1, 1)})
  \/ r_hist.draws < MaxLongDraws /\ hist.ops # {} /\
       RDraw({FALSE}, {16}) /\ UNCHANGED loop

SpecLong == InitRenderer /\ [][LongNext]_vars

\* the event loop with a quiet or a busy child
LoopNext ==
  \/ LoopTop
  \/ LoopWaitTimeout
  \/ LoopWaitEvent
  \/ LoopReceive
  \/ LoopHandled

SpecLoop == InitRenderer /\ [][LoopNext]_vars

SpecSdl == Init /\ [][SdlNext]_vars

\* both threads run on
SpecSdlFair ==
  /\ Init /\ [][SdlNext]_vars
  /\ WF_sdl(SdlLock) /\ WF_sdl(SdlCheck) /\ WF_sdl(SdlBlock)
  /\ WF_sdl(SdlUnlock) /\ WF_sdl(SdlGui)

\* poll() returns when its timeout has passed and the loop body runs on:
\* draw() and receive_from_pty return
SpecLoopFair ==
  /\ InitRenderer /\ [][LoopNext]_vars
  /\ WF_loop(LoopTurn) /\ WF_vars(LoopWaitTimeout) /\ WF_vars(LoopHandled)

(***************************************************************************)
(* Matrix dirty tracking                                                    *)
(***************************************************************************)
Cells == {Point(x, y) : x \in 1..MatCols, y \in 1..MatRows}
Reported == {updates[i].pos : i \in 1..Len(updates)}
At(cells, p) == cells[p.y][p.x]

\* C1: after any sequence of set, write, fill and scroll calls, commit
\* returns every cell whose needs_update holds against its content at the
\* previous commit, each once, and no other cell.
C1_CommitReportsExactlyNeedsUpdate ==
  hist.call.op = "commit" =>
    /\ Reported = {p \in Cells :
                     needs_update(At(chist.scanned, p), At(chist.prev, p))}
    /\ Cardinality(Reported) = Len(updates)

\* a second commit that reports cells and leaves out a touched cell whose
\* style changed invisibly
C1_Witness ==
  /\ hist.call.op = "commit"
  /\ hist.commits = 2
  /\ Len(updates) >= 2
  /\ \E p \in Cells \ Reported :
       /\ At(chist.scanned, p).dirty
       /\ At(chist.scanned, p).style # At(chist.prev, p).style

\* the last two commits both saw a visible cursor, at valid positions that
\* differ, and the calls between them were move_abs calls only
CursorMovedBetweenCommits ==
  /\ hist.call.op = "commit"
  /\ hist.commits >= 2
  /\ chist.between = {"move_abs"}
  /\ m_cursor_visible /\ chist.vis_old
  /\ valid(chist.pos_old, m_size) /\ valid(m_pos, m_size)
  /\ m_pos # chist.pos_old

\* C12: if the cursor is visible and the only change between two commits
\* is that the cursor moves from a valid position p to a different valid
\* position q, the second commit reports exactly two updates, one for p
\* and one for q.
C12_CursorMoveReportsOldAndNew ==
  CursorMovedBetweenCommits =>
    /\ Len(updates) = 2
    /\ Reported = {chist.pos_old, m_pos}

\* the cursor left a cell a commit had reported and went to one no call
\* has touched, and the second commit reported both
C12_Witness ==
  /\ CursorMovedBetweenCommits
  /\ Len(updates) = 2
  /\ At(m_cells, m_pos).cursor
  /\ ~At(m_cells, chist.pos_old).cursor
  /\ At(chist.prev, chist.pos_old).cursor

\* an empty or space cell that is neither underlined nor struck through
IsBlankValue(c) ==
  /\ c.glyph = 0 \/ c.glyph = 32
  /\ ~c.style.strikethrough
  /\ c.style.underline = 0

\* between the last two commits cell p was set from a blank value to a
\* blank value of another foreground colour and the same style otherwise
BlankRecoloured(p) ==
  LET c == At(chist.scanned, p)
      old == At(chist.prev, p)
  IN /\ hist.call.op = "commit"
     /\ hist.commits >= 2
     /\ c.dirty
     /\ IsBlankValue(c) /\ IsBlankValue(old)
     /\ c.style.fg # old.style.fg
     /\ [c.style EXCEPT !.fg = old.style.fg] = old.style

\* the cell is drawn with foreground and background swapped
DrawnInverted(c) == c.cursor # c.style.inverse

\* C13 as claimed: setting a blank cell (empty or space, not underlined,
\* not struck through) to another blank value that differs only in the
\* foreground colour produces no update at the next commit.
C13_BlankRecolourNotReported ==
  \A p \in Cells : BlankRecoloured(p) => p \notin Reported

\* C13 as amended: setting a blank cell to another blank value that
\* differs only in the foreground colour produces no update at the next
\* commit when the cell is drawn non-inverted at both commits, that is
\* when it neither holds the cursor nor has the inverse style (or both).
C13_UprightBlankRecolourNotReported ==
  \A p \in Cells :
    (/\ BlankRecoloured(p)
     /\ ~DrawnInverted(At(chist.scanned, p))
     /\ ~DrawnInverted(At(chist.prev, p))) => p \notin Reported

\* a blank cell away from the cursor got another foreground colour between
\* two commits and the second commit scanned it without reporting it
C13_Witness ==
  \E p \in Cells :
    /\ BlankRecoloured(p)
    /\ ~DrawnInverted(At(chist.scanned, p))
    /\ ~DrawnInverted(At(chist.prev, p))
    /\ InRect(m_update_bounds, p.x, p.y)
    /\ p \notin Reported

\* C14: on a freshly constructed matrix with no mutating call, commit
\* returns an empty update list and the update bounds are empty afterwards.
C14_FreshCommitIsEmpty ==
  (hist.n = 1 /\ hist.call.op = "commit") =>
    /\ updates = <<>>
    /\ ~RectValid(m_update_bounds)

\* the glyphs of the current buffer, row by row
Glyphs == [y \in DOMAIN m_cells |-> [x \in DOMAIN m_cells[y] |->
             m_cells[y][x].glyph]]

\* C15: with rows = 2 and cols = 2, after six write calls with the glyphs
\* '1' to '6', committing in between, the grid is [['3','4'],['5','6']] and
\* the cursor is in row 2.
C15_SixWritesScrollOnce ==
  (m_size = Point(2, 2) /\ Writes = 6 /\ hist.ops \subseteq {"write"}) =>
    /\ Glyphs = <<<<51, 52>>, <<53, 54>>>>
    /\ m_pos.y = 2

\* C16: write(glyph, style, replaces_last = true) stamps the glyph into the
\* cell the immediately preceding write stamped, not into the cell at the
\* advanced cursor position.
C16_ReplacesLastStampsLastWritten ==
  (/\ hist.call.op = "write"
   /\ hist.call.replaces_last
   /\ hist.call.follows_write) => hist.call.at = hist.call.last_at

\* cell p was set between the last two commits and its glyph and style
\* are those of the previous commit
SetBackToCommitted(p) ==
  /\ hist.call.op = "commit"
  /\ hist.commits >= 2
  /\ p \in chist.set_at
  /\ At(chist.scanned, p).glyph = At(chist.prev, p).glyph
  /\ At(chist.scanned, p).style = At(chist.prev, p).style

\* C17 as claimed: commit reports each cell position at most once, and a
\* cell that was set one or more times since the previous commit but whose
\* final glyph and style equal its value at the previous commit is not
\* reported.
C17_SetBackCellNotReported ==
  /\ Cardinality(Reported) = Len(updates)
  /\ \A p \in Cells : SetBackToCommitted(p) => p \notin Reported

\* C17 as amended: commit reports each cell position at most once, and a
\* cell that was set one or more times since the previous commit but whose
\* final glyph and style equal its value at the previous commit is not
\* reported unless its cursor flag has changed since the previous commit.
C17_SetBackCellNotReportedUnlessCursor ==
  /\ Cardinality(Reported) = Len(updates)
  /\ \A p \in Cells :
       (/\ SetBackToCommitted(p)
        /\ At(chist.scanned, p).cursor = At(chist.prev, p).cursor) =>
         p \notin Reported

\* a cell away from the cursor was changed and set back between two
\* commits; the second commit scanned it as dirty and did not report it
C17_Witness ==
  \E p \in Cells :
    /\ SetBackToCommitted(p)
    /\ ~At(chist.scanned, p).cursor /\ ~At(chist.prev, p).cursor
    /\ chist.between = {"set"}
    /\ At(chist.scanned, p).dirty
    /\ InRect(m_update_bounds, p.x, p.y)
    /\ p \notin Reported

\* C18: after any sequence of move_abs, move_rel, write, scroll, resize and
\* reset calls on a matrix with at least one row and one column, the cursor
\* position satisfies 1 <= pos.x <= cols and 1 <= pos.y <= rows.
C18_CursorInsideMatrix ==
  (m_size.x >= 1 /\ m_size.y >= 1) => valid(m_pos, m_size)

\* every cell of the buffer is an empty glyph in the default style
AllBlank(cells) ==
  \A y \in DOMAIN cells : \A x \in DOMAIN cells[y] :
    cells[y][x].glyph = 0 /\ cells[y][x].style = Style0

\* C19: after reset(), every cell of the current buffer and every cell of
\* the alternate buffer is blank with the default style, and the cursor is
\* at (1,1) and visible.
C19_ResetBlanksBothBuffers ==
  hist.call.op = "reset" =>
    /\ AllBlank(m_cells)
    /\ AllBlank(m_cells_alt)
    /\ m_pos = Point(1, 1)
    /\ m_cursor_visible

\* glyph, style and cursor flag of every cell agree
SameContent(a, b) ==
  \A p \in Cells :
    /\ At(a, p).glyph = At(b, p).glyph
    /\ At(a, p).style = At(b, p).style
    /\ At(a, p).cursor = At(b, p).cursor

\* the cell looks different from old, whatever its dirty flag
Differs(c, old) == needs_update([c EXCEPT !.dirty = TRUE], old)

ScrolledThereAndBack ==
  /\ hist.call.op = "scroll"
  /\ hist.prev.op = "scroll"
  /\ hist.call.pen = hist.prev.pen
  /\ hist.call.r = hist.prev.r
  /\ RectValid(hist.call.r)
  /\ hist.call.downward = -hist.prev.downward
  /\ hist.call.rightward = -hist.prev.rightward

\* the cells inside both translations of the scrolled rectangle
InBothTranslations(p) ==
  /\ InRect(Translate(hist.prev.r, hist.prev.rightward, hist.prev.downward),
            p.x, p.y)
  /\ InRect(Translate(hist.prev.r, -hist.prev.rightward,
                      -hist.prev.downward), p.x, p.y)

\* C10: scroll(g, s, rect, d, r) followed by scroll(g, s, rect, -d, -r)
\* restores glyph and style of every cell inside the intersection of the two
\* translated rectangles.
C10_ScrollThereAndBackRestores ==
  ScrolledThereAndBack =>
    \A p \in Cells :
      InBothTranslations(p) =>
        /\ At(m_cells, p).glyph = At(hist.before_prev, p).glyph
        /\ At(m_cells, p).style = At(hist.before_prev, p).style

\* a written cell inside the intersection after scrolling by a non-zero
\* distance and back
C10_Witness ==
  /\ ScrolledThereAndBack
  /\ hist.prev.rightward # 0 \/ hist.prev.downward # 0
  /\ \E p \in Cells :
       /\ InBothTranslations(p)
       /\ At(hist.before_prev, p).glyph # 0
       /\ At(m_cells, p).glyph = At(hist.before_prev, p).glyph

\* the cells of the scrolled rectangle whose source in the scroll before the
\* last was outside the rectangle, and those whose source in the last
\* scroll was
BlankedByFirst(p) ==
  /\ InRect(hist.prev.r, p.x, p.y)
  /\ ~InRect(hist.prev.r, p.x + hist.prev.rightward,
             p.y + hist.prev.downward)
BlankedBySecond(p) ==
  /\ InRect(hist.call.r, p.x, p.y)
  /\ ~InRect(hist.call.r, p.x + hist.call.rightward,
             p.y + hist.call.downward)
IsBlank(c, style) == c.glyph = 0 /\ c.style = style

\* C11 as claimed: after scroll(g, s, rect, d, r) followed by
\* scroll(g, s, rect, -d, -r), every cell the first scroll blanked is still
\* blank.
C11_BlankedByFirstScrollStayBlank ==
  ScrolledThereAndBack =>
    \A p \in Cells :
      BlankedByFirst(p) => IsBlank(At(m_cells, p), hist.call.pen.style)

\* C11 as amended: after scroll(g, s, rect, d, r) followed by
\* scroll(g, s, rect, -d, -r), every cell of rect whose content the first
\* scroll moved out of rect is blank, in the style s; a cell the first
\* scroll blanked whose content the second scroll moves back from inside
\* rect holds the glyph and the style it had before the first scroll.
C11_ScrolledOutCellsAreBlank ==
  ScrolledThereAndBack =>
    \A p \in Cells :
      /\ BlankedBySecond(p) => IsBlank(At(m_cells, p), hist.call.pen.style)
      /\ (BlankedByFirst(p) /\ InRect(hist.call.r, p.x, p.y)
            /\ ~BlankedBySecond(p)) =>
           /\ At(m_cells, p).glyph = At(hist.before_prev, p).glyph
           /\ At(m_cells, p).style = At(hist.before_prev, p).style

\* a written cell whose content the first scroll moved out of the
\* rectangle, blank after the scroll back
C11_Witness ==
  /\ ScrolledThereAndBack
  /\ \E p \in Cells :
       /\ BlankedBySecond(p)
       /\ At(hist.before_prev, p).glyph # 0
       /\ IsBlank(At(m_cells, p), hist.call.pen.style)

\* C20: after scroll(glyph, style, rect, downward, rightward), every cell
\* of rect whose source position falls outside rect holds exactly the given
\* glyph and the given style.
C20_ScrolledInCellsHoldGlyphAndStyle ==
  (/\ hist.call.op = "scroll"
   /\ RectValid(hist.call.r)
   /\ hist.call.downward # 0 \/ hist.call.rightward # 0) =>
    \A p \in Cells :
      BlankedBySecond(p) =>
        /\ At(m_cells, p).glyph = hist.call.pen.glyph
        /\ At(m_cells, p).style = hist.call.pen.style

(***************************************************************************)
(* Display locking                                                          *)
(***************************************************************************)
HookCalled(name) ==
  /\ Len(d_hooks') = Len(d_hooks) + 1
  /\ d_hooks'[Len(d_hooks')].hook = name

\* C3: do_lock is called exactly when the lock counter goes from 0 to 1,
\* do_unlock exactly when it goes from 1 to 0, and so the hook calls
\* alternate do_lock, do_unlock, do_lock, ...
C3_HooksOncePerLockCycle ==
  [][/\ (d_locked = 0 /\ d_locked' = 1) <=> HookCalled("do_lock")
     /\ (d_locked = 1 /\ d_locked' = 0) <=> HookCalled("do_unlock")
     /\ Len(d_hooks') <= Len(d_hooks) + 1
     /\ \A i \in 1..Len(d_hooks) : d_hooks'[i] = d_hooks[i]
     /\ \A i \in 1..Len(d_hooks') :
          d_hooks'[i].hook = IF i % 2 = 1 THEN "do_lock" ELSE "do_unlock"
    ]_vars

\* a nested lock cycle: two lock() calls, two unlock() calls, one call of
\* each hook
C3_Witness ==
  /\ d_hist.locks = 2
  /\ d_hist.call.op = "unlock"
  /\ d_locked = 0
  /\ \A t \in Threads : d_pc[t] = "ready" /\ d_hist.held[t] = 0
  /\ ~d_hist.foreign
  /\ Len(d_hooks) = 2

\* C4: once every thread has matched each of its lock() calls by an unlock()
\* call, nested ones included, the display mutex is released, so that the
\* lock() of another thread does not wait for ever.
C4_MutexReleasedAfterBalancedCalls ==
  (/\ ~d_hist.foreign
   /\ \A t \in Threads : d_hist.held[t] = 0) =>
    d_mutex.count = 0

(***************************************************************************)
(* Composition                                                              *)
(***************************************************************************)
LastHook == d_hooks[Len(d_hooks)]

\* the last call was an unlock() that handed the commit requests to the
\* backend, or one after it that found the display unlocked
Delivered ==
  /\ d_hist.call.op = "unlock"
  /\ d_locked = 0
  /\ Len(d_hooks) > 0
  /\ LastHook.hook = "do_unlock"

\* the pixels of the surface inside the rectangles of the delivered requests
DeliveredPixels ==
  UNION {LET r == Translate(LastHook.requests[i].r, -d_display_rect.x0,
                            -d_display_rect.y0)
         IN {Point(x, y) : x \in r.x0..(r.x1 - 1), y \in Lines(r)} :
         i \in 1..Len(LastHook.requests)}

Blend(bg, pr) ==
  [r |-> (bg.r * (255 - pr.a)) \div 255 + pr.r,
   g |-> (bg.g * (255 - pr.a)) \div 255 + pr.g,
   b |-> (bg.b * (255 - pr.a)) \div 255 + pr.b,
   a |-> 255]

\* C7: after fill and blit calls on the two layers, a commit and the final
\* unlock, every composite pixel inside the committed rectangle is
\* (bg.rgb * (255 - pr.a) / 255 + pr.rgb, 255).
C7_CompositeIsBlendOfLayers ==
  Delivered =>
    \A p \in DeliveredPixels :
      LET i == Offset(d_stride, p.x, p.y)
      IN d_composite[i] = Blend(d_layer_bg[i], d_layer_presentation[i])

\* a delivered pixel where a half transparent presentation pixel lies over a
\* background pixel that is not black
C7_Witness ==
  /\ Delivered
  /\ \E p \in DeliveredPixels :
       LET i == Offset(d_stride, p.x, p.y)
       IN /\ d_layer_bg[i].r > 0
          /\ d_layer_presentation[i].a \in 1..254
          /\ d_layer_presentation[i].g > 0
          /\ d_composite[i] = Blend(d_layer_bg[i], d_layer_presentation[i])
          /\ d_composite[i] # d_layer_presentation[i]

(***************************************************************************)
(* Rectangle merging                                                        *)
(***************************************************************************)
RECURSIVE AreaSum(_, _)
AreaSum(rects, from) ==
  IF from = {} THEN 0
  ELSE LET k == CHOOSE j \in from : TRUE
       IN RectArea(rects[k]) + AreaSum(rects, from \ {k})

\* the areas of the inserted rectangles that rectangle i of the list has
\* grown from
SourceArea(i) == AreaSum(rm_hist.inserted, rm_hist.from[i])

\* C6 as stated: after merge(), the areas of the inserted rectangles that
\* contributed to an output rectangle u sum to at least 3/4 of the area of u.
C6_SourceAreasCoverThreeQuarters ==
  rm_hist.call = "merge" =>
    \A i \in 1..Len(rm_rects) :
      4 * SourceArea(i) >= 3 * RectArea(rm_rects[i])

\* C6 as amended: every merge step of insert() and merge() replaces a
\* rectangle s of the list by the bounding box u of s and r, where the areas
\* of r and s, as they are in the list at that step, sum to at least
\* 3 * area(u) / 4 rounded down.
C6_EachMergeStepCoversThreeQuarters ==
  \A k \in 1..Len(rm_hist.steps) :
    LET step == rm_hist.steps[k]
    IN /\ step.u = RectGrow(step.r, step.s)
       /\ 4 * (RectArea(step.r) + RectArea(step.s)) + 3 >=
            3 * RectArea(step.u)

\* a merge() that merges a rectangle grown by an earlier merge step into
\* another one
C6_Witness ==
  /\ rm_hist.call = "merge"
  /\ Len(rm_hist.steps) >= 1
  /\ \E i \in 1..Len(rm_rects) :
       /\ Cardinality(rm_hist.from[i]) >= 3
       /\ 4 * SourceArea(i) < 3 * RectArea(rm_rects[i])

\* the areas of r and s sum to at least three quarters of the area of
\* their bounding box
CoverThreeQuarters(r, s) ==
  4 * (RectArea(r) + RectArea(s)) >= 3 * RectArea(RectGrow(r, s))

\* C21: insert(r) merges r into an existing rectangle s, replacing s by the
\* bounding box u of r and s, if and only if area(r) + area(s) >=
\* (3/4) * area(u).
C21_InsertMergesIffThreeQuarters ==
  (rm_hist.call = "insert" /\ rm_hist.inserted # <<>>) =>
    LET r == rm_hist.inserted[Len(rm_hist.inserted)]
    IN IF rm_hist.steps # <<>>
       THEN /\ rm_hist.steps[1].u = RectGrow(r, rm_hist.steps[1].s)
            /\ CoverThreeQuarters(r, rm_hist.steps[1].s)
       ELSE \A i \in 1..(Len(rm_rects) - 1) :
              ~CoverThreeQuarters(r, rm_rects[i])

(***************************************************************************)
(* E-paper update modes                                                     *)
(***************************************************************************)
GreyBefore ==
  rgba_to_greyscale(conv_to_rgba(SdlLayout, read_pixel(ep_hist.before)))
GreyAfter == rgba_to_greyscale(conv_to_rgba(SdlLayout, read_pixel(ep_tar)))
GreySource == rgba_to_greyscale(ep_src)

\* the output operation, by name
Transformed(g) ==
  CASE ep_mode.output_op = "Identity" -> g
    [] ep_mode.output_op = "ForceMono" -> IF g > 7 THEN 15 ELSE 0
    [] ep_mode.output_op = "Invert" -> 15 - g
    [] ep_mode.output_op = "InvertAndForceMono" ->
         IF 15 - g > 7 THEN 15 ELSE 0
    [] ep_mode.output_op = "White" -> 15

\* the mask operation, by name
Skipped(g_src, g_tar) ==
  CASE ep_mode.mask_op = "Full" -> FALSE
    [] ep_mode.mask_op = "SourceMono" -> g_src \notin {0, 15}
    [] ep_mode.mask_op = "TargetMono" -> g_tar \notin {0, 15}
    [] ep_mode.mask_op = "SourceAndTargetMono" ->
         g_src \notin {0, 15} \/ g_tar \notin {0, 15}
    [] ep_mode.mask_op = "Partial" -> g_src = g_tar

\* C8 as stated: the update applies output_op to g_src, computes the mask
\* from the transformed g_src and g_tar, and writes g_tar if masked and the
\* transformed g_src otherwise.
C8_MaskFromTransformedSource ==
  ep_hist.updates >= 1 =>
    GreyAfter = IF Skipped(Transformed(GreySource), GreyBefore)
                THEN GreyBefore
                ELSE Transformed(GreySource)

\* C8 as amended: as stated for Identity, ForceMono, Invert and
\* InvertAndForceMono; for White the mask is computed from the untransformed
\* g_src and g_tar, and the update writes g_tar if masked and 15 otherwise.
C8_MaskBeforeWhite ==
  ep_hist.updates >= 1 =>
    /\ GreyAfter =
         IF Skipped(IF ep_mode.output_op = "White" THEN GreySource
                    ELSE Transformed(GreySource), GreyBefore)
         THEN GreyBefore
         ELSE Transformed(GreySource)
    /\ ep_tar = <<17 * GreyAfter, 17 * GreyAfter, 17 * GreyAfter, 255>>

\* a White update that leaves a pixel as it was because its source is a grey
C8_Witness ==
  /\ ep_hist.updates >= 1
  /\ ep_mode = UpdateMode("White", "SourceMono")
  /\ GreySource = 5
  /\ GreyBefore = 3
  /\ GreyAfter = 3

(***************************************************************************)
(* C2: once the draw passes have been told that redraw_timeout_high        *)
(* (1000) ms have gone by since the first draw pass that followed the last *)
(* call of the Matrix, every cell of the renderer is in high quality: it   *)
(* is not marked low quality and is marked high quality. The first draw    *)
(* pass after the last call of the Matrix is the one that may draw cells   *)
(* in low quality; the draw pass that brings the elapsed time to 1000 ms   *)
(* is the one that redraws them.                                           *)
(***************************************************************************)
C2_LowQualityCellsPromotedAfterTimeout ==
  (r_hist.call.op = "draw" /\ r_hist.quiet >= redraw_timeout_high) =>
    \A p \in RCells(r_geometry) :
      /\ ~RAt(r_cells, p).is_low_quality
      /\ RAt(r_cells, p).is_high_quality

\* a draw pass that found cells in low quality after a quiet second and drew
\* them in high quality
C2_Witness ==
  /\ r_hist.call.op = "draw"
  /\ r_hist.quiet >= redraw_timeout_high
  /\ r_hist.drew
  /\ r_hist.low_before # {}
  /\ \A p \in r_hist.low_before :
       RAt(r_cells, p).is_high_quality /\ ~RAt(r_cells, p).is_low_quality

(***************************************************************************)
(* C5: in the requests the backend's do_unlock is handed, no request of    *)
(* pass B (Identity, Partial) comes before a request of pass A (Identity,  *)
(* SourceMono).                                                            *)
(***************************************************************************)
C5_PassARequestsPrecedePassB ==
  \A k \in 1..Len(d_hooks) :
    d_hooks[k].hook = "do_unlock" =>
      \A i, j \in 1..Len(d_hooks[k].requests) :
        (d_hooks[k].requests[i].mode = PassB
         /\ d_hooks[k].requests[j].mode = PassA) => j < i

\* a draw pass that handed do_unlock requests of both passes
C5_Witness ==
  /\ r_hist.call.op = "draw"
  /\ r_hist.drew
  /\ LastHook.hook = "do_unlock"
  /\ \E i, j \in 1..Len(LastHook.requests) :
       /\ LastHook.requests[i].mode = PassA
       /\ LastHook.requests[j].mode = PassB


\* C22: with output_op = Identity and mask_op = Partial, applying the
\* e-paper update of the same source to the same region twice leaves the
\* target after the second update equal to the target after the first.
C22_SecondPartialUpdateChangesNothing ==
  (ep_mode = UpdateMode("Identity", "Partial") /\ ep_hist.updates >= 2) =>
    ep_tar = ep_hist.before

\* two partial updates of a source whose grey differs from the screen's:
\* the first changed the pixel, the second did not
C22_Witness ==
  /\ ep_mode = UpdateMode("Identity", "Partial")
  /\ ep_hist.updates = 2
  /\ ep_hist.first # ep_hist.before
  /\ ep_tar = ep_hist.before
  /\ GreySource = GreyAfter


\* the last step was a commit, fill, fill_dither or blit call
DrawingCalls == {"commit", "fill", "fill_dither", "blit"}

\* C23: commit, fill, fill_dither and blit called while the display lock
\* counter is 0 have no effect: they change neither layer buffer, nor the
\* composite buffer, nor the commit-request queue.
C23_UnlockedDrawingHasNoEffect ==
  [][(/\ d_locked = 0
      /\ d_hist'.call.op \in DrawingCalls
      /\ (d_hist'.draws # d_hist.draws \/ d_hist'.commits # d_hist.commits))
       => UNCHANGED <<d_layer_bg, d_layer_presentation, d_composite,
                      d_commit_requests>>]_vars

\* a drawing call on a display that has a surface from an earlier lock
\* cycle and is not locked
C23_Witness ==
  /\ d_locked = 0
  /\ d_hist.call.op \in DrawingCalls
  /\ Len(d_layer_bg) > 0
  /\ RectWidth(d_surf_rect) > 0
  /\ d_commit_requests = <<>>


\* in SpecStaleLock every do_lock after the first returns an invalid
\* rectangle: the display is in a lock cycle whose do_lock failed
InFailedLockCycle == d_locked > 0 /\ d_hist.locks >= 2

\* C24: if the backend's do_lock fails to obtain a surface (returns an
\* invalid rectangle), lock() yields an empty rectangle and the drawing of
\* that lock cycle is a no-op: no layer pixel is changed and no region is
\* delivered to the backend at the end of the cycle.
C24_FailedLockCycleDrawsNothing ==
  /\ [](InFailedLockCycle =>
          (RectWidth(d_surf_rect) = 0 \/ RectHeight(d_surf_rect) = 0))
  /\ [][InFailedLockCycle =>
          /\ UNCHANGED <<d_layer_bg, d_layer_presentation>>
          /\ (d_locked' = 0 => d_hooks'[Len(d_hooks')].requests = <<>>)]_vars

\* the two rectangles have no pixel in common
Disjoint(r, s) == r.x1 <= s.x0 \/ s.x1 <= r.x0 \/ r.y1 <= s.y0 \/ s.y1 <= r.y0

\* rectangles right of, below, left of and above a surface at the origin
OffSurface ==
  {Rect(SurfW + 1, 0, SurfW + 3, 1), Rect(0, SurfH, 1, SurfH + 2),
   Rect(-2, 0, 0, 1), Rect(0, -1, 1, 0)}

\* C25: fill, fill_dither and blit modify no pixel of any layer when the
\* given rectangle is empty after clipping to the surface, in particular
\* when it does not overlap the surface at all: whatever the state of the
\* display, a call with a rectangle that shares no pixel with the surface
\* either gets no target pointer or covers no pixel of the layer.
C25_OffSurfaceDrawingIsSkipped ==
  \A r \in OffSurface :
    Disjoint(r, d_surf_rect) =>
      \/ ~target_rect(r).ok
      \/ \A i \in DOMAIN d_layer_bg :
           Covered(d_stride, target_rect(r).r, i) = {}

(***************************************************************************)
(* The frame buffer backend                                                *)
(***************************************************************************)
Sends == {i \in 1..Len(fb_ioctl) : fb_ioctl[i].request = "MXCFB_SEND_UPDATE"}

\* the update is driven as a monochrome draft
DraftMonochrome(u) ==
  \/ u.waveform_mode \in {"WAVEFORM_MODE_A2", "4"}
  \/ "EPDC_FLAG_FORCE_MONOCHROME" \in u.flags

\* C26: on the frame buffer path the waveform and flags of each update are
\* determined by the UpdateMode of its commit request: a request of pass A
\* (mask SourceMono) is driven with the monochrome draft waveform and a
\* request of pass B (mask Partial) with a partial greyscale waveform.
C26_WaveformFollowsUpdateMode ==
  \A i \in Sends :
    /\ fb_ioctl[i].update_mode = "UPDATE_MODE_PARTIAL"
    /\ DraftMonochrome(fb_ioctl[i]) <=>
         (fb_ioctl[i].mode.mask_op = "SourceMono")


Waits ==
  {i \in 1..Len(fb_ioctl) :
     fb_ioctl[i].request = "MXCFB_WAIT_FOR_UPDATE_COMPLETE"}

\* send i is the last update sent before call k
LastSendBefore(i, k) ==
  i \in Sends /\ i < k /\ \A j \in Sends : ~(i < j /\ j < k)

\* C27: on the frame buffer path every update sent to the e-paper driver
\* after the first is preceded by a wait for the completion of the
\* previously sent update: between two updates sent one after the other
\* there is a completion wait, and every completion wait is for the marker
\* carried by the last update sent before it.
C27_UpdatesSeparatedByCompletionWait ==
  /\ \A i, j \in Sends :
       LastSendBefore(i, j) =>
         \E k \in Waits : i < k /\ k < j
  /\ \A k \in Waits :
       \E i \in Sends :
         LastSendBefore(i, k) /\ fb_ioctl[k].marker = fb_ioctl[i].marker

\* three updates with markers of their own were sent one after the other,
\* across two calls of do_unlock
C27_Witness ==
  /\ fb_hist.unlocks = 2
  /\ Cardinality(Sends) >= 3
  /\ \E i, j \in Sends :
       LastSendBefore(i, j) /\ fb_ioctl[i].marker # fb_ioctl[j].marker


(***************************************************************************)
(* The UTF-8 decoder                                                       *)
(***************************************************************************)
\* the code point whose encoding is being fed or was fed last
FedCodepoint == u8_hist.cps[Len(u8_hist.cps)]

\* the last byte fed belongs to a well-formed sequence fed to a fresh
\* decoder
FedWellFormed == u8_hist.wellformed /\ u8_hist.fed > 0

C29_TimeoutTightenedOnlyByLowQualityCells ==
  (r_hist.call.op = "draw" /\ r_hist.timeout = redraw_timeout_low)
    => r_hist.stale_low


\* the step is a draw() that found the update bounds empty after the
\* overdue detection
DrawWithoutUpdates == r_hist'.draws # r_hist.draws /\ ~r_hist'.drew

\* C30: if, after ingesting the Matrix updates and running the overdue
\* detection, update_bounds is empty, draw() returns without locking the
\* display, without enqueuing any commit, without any backend hook call and
\* without incrementing the operation_counter of any cell.
C30_EmptyBoundsDrawDoesNothing ==
  [][DrawWithoutUpdates =>
       /\ UNCHANGED <<d_locked, d_mutex, d_commit_requests, d_hooks,
                      d_layer_bg, d_layer_presentation, d_composite>>
       /\ \A y \in DOMAIN r_cells' : \A x \in DOMAIN r_cells'[y] :
            (y \in DOMAIN r_cells /\ x \in DOMAIN r_cells[y]) =>
              r_cells'[y][x].operation_counter =
                r_cells[y][x].operation_counter]_vars

\* a draw() returned on empty update bounds after an earlier draw() had
\* drawn and counted an operation on the cells it left alone
C30_Witness ==
  /\ r_hist.call.op = "draw"
  /\ ~r_hist.drew
  /\ r_hist.draws >= 2
  /\ ~RectValid(r_update_bounds)
  /\ \E q \in RCells(r_geometry) :
       /\ RAt(r_cells, q).operation_counter > 0
       /\ RAt(r_cells, q).last_update > 0


(***************************************************************************)
(* The buffers of the display                                              *)
(***************************************************************************)
\* C31: when the lock counter goes from 0 to 1 and do_lock returns a valid
\* rectangle of width w and height h, the internal buffers are resized to
\* w x h and lock() returns the local surface rectangle (0, 0, w, h), for
\* any previous buffer size. In SpecResize every do_lock returns a valid
\* rectangle, which lock() keeps in m_display_rect.
C31_LockResizesToBackendRectangle ==
  d_locked > 0 =>
    LET w == RectWidth(d_display_rect)
        h == RectHeight(d_display_rect)
    IN /\ d_width = w /\ d_height = h
       /\ d_surf_rect = Rect(0, 0, w, h)
       /\ Len(d_composite) = (h * stride_of(w)) \div 4
       /\ Len(d_layer_bg) = (h * stride_of(w)) \div 4
       /\ Len(d_layer_presentation) = (h * stride_of(w)) \div 4


(***************************************************************************)
(* The event loop                                                          *)
(***************************************************************************)
\* C32: every draw() call issued by the event loop is given as dt the
\* number of milliseconds elapsed since the previous draw() call, so that
\* each cell's last_update equals the time elapsed since that cell was
\* last drawn. Stated for the draw() calls that have one before them.
C32_DrawIsGivenElapsedMilliseconds ==
  loop.drew /\ r_hist.draws >= 2 =>
    /\ r_hist.call.op = "draw"
    /\ r_hist.call.dt = loop.since

\* C33: once child output has been received and a redraw is flagged, the
\* event loop eventually calls draw(), unless a quit event ends the loop
\* first
C33_FlaggedRedrawIsEventuallyDrawn ==
  loop.needs_redraw ~> (loop.drew \/ loop.done)

\* a redraw that waited for the rest of the interval was drawn
C33_Witness ==
  loop.drew /\ ~loop.done /\ r_hist.draws = 2 /\ loop.since >= 16


(***************************************************************************)
(* RectangleMerger: the list after merge()                                 *)
(***************************************************************************)
\* C34: when merge() returns, the merger's list is a fixpoint of the merge
\* rule: no two distinct rectangles r, s of the list satisfy
\* area(r) + area(s) >= (3/4) * area(grow(r, s)) as the merger evaluates it.
C34_MergedListIsFixpoint ==
  rm_hist.call = "merge" =>
    \A i, j \in 1..Len(rm_rects) :
      i # j => ~matches(rm_rects[i], rm_rects[j])

\* a merge() that merged rectangles and left more than one
C34_Witness ==
  /\ rm_hist.call = "merge"
  /\ rm_hist.steps # <<>>
  /\ Len(rm_rects) >= 2


\* r lies within u
Within(r, u) ==
  u.x0 <= r.x0 /\ u.y0 <= r.y0 /\ r.x1 <= u.x1 /\ r.y1 <= u.y1

\* C38: after any sequence of insert() calls followed by merge(), every
\* inserted rectangle is contained in at least one rectangle of the
\* merger's list, so no dirty region is dropped from the commits.
C38_InsertedRectanglesStayCovered ==
  rm_hist.call = "merge" =>
    \A k \in 1..Len(rm_hist.inserted) :
      \E i \in 1..Len(rm_rects) : Within(rm_hist.inserted[k], rm_rects[i])

\* a merge() that merged rectangles of a list made by three or more inserts
C38_Witness ==
  /\ rm_hist.call = "merge"
  /\ rm_hist.steps # <<>>
  /\ Len(rm_hist.inserted) >= 3
  /\ Len(rm_rects) < Len(rm_hist.inserted)


(***************************************************************************)
(* Matrix::Cell::needs_update                                              *)
(***************************************************************************)
\* the cell is drawn with foreground and background exchanged
DrawnInverse(c) == c.cursor # c.style.inverse

\* the colours the cell is drawn with
EffectiveFg(c) == IF DrawnInverse(c) THEN c.style.bg ELSE c.style.fg
EffectiveBg(c) == IF DrawnInverse(c) THEN c.style.fg ELSE c.style.bg

\* some attribute that affects the drawing differs between c and old; the
\* glyph, the foreground colour and the emphasis affect the drawing of a
\* cell that shows a glyph
DrawingDiffers(c, old) ==
  \/ invisible(c) # invisible(old)
  \/ DrawnInverse(c) # DrawnInverse(old)
  \/ EffectiveBg(c) # EffectiveBg(old)
  \/ /\ ~(invisible(c) /\ invisible(old))
     /\ \/ c.glyph # old.glyph
        \/ EffectiveFg(c) # EffectiveFg(old)
        \/ c.style.bold # old.style.bold
        \/ c.style.italic # old.style.italic
        \/ c.style.strikethrough # old.style.strikethrough
        \/ c.style.underline # old.style.underline

\* C35: for a dirty cell, needs_update(old) returns true if and only if
\* some drawing-affecting attribute differs between the cell and old:
\* whether the glyph is visible (including the concealed attribute), the
\* glyph, the effective foreground or background colour, bold, italic,
\* strikethrough, underline, or cursor XOR inverse. Stated for the cells
\* commit() hands to needs_update.
C35_NeedsUpdateIffDrawingDiffers ==
  [][hist'.commits = hist.commits + 1 =>
       \A x \in 1..m_size.x, y \in 1..m_size.y :
         LET c == chist'.scanned[y][x]
             old == m_cells_old[y][x]
         IN c.dirty => (needs_update(c, old) <=> DrawingDiffers(c, old))]_vars


(***************************************************************************)
(* The cursor flag                                                         *)
(***************************************************************************)
\* C36: after every commit(), the cursor flag is set on the cell at pos if
\* the cursor is visible and pos is valid, and on no other cell of the
\* current buffer, for any preceding sequence of move, set, scroll and
\* alternate-buffer operations.
C36_OnlyCursorCellFlagged ==
  hist.call.op = "commit" =>
    \A x \in 1..m_size.x, y \in 1..m_size.y :
      m_cells[y][x].cursor <=>
        (m_cursor_visible /\ valid(m_pos, m_size) /\ m_pos = Point(x, y))


(***************************************************************************)
(* MatrixRenderer: the cell flags after draw()                             *)
(***************************************************************************)
\* C37: when draw() returns, no renderer cell has dirty = true or
\* overdue = true: every cell flagged dirty or overdue (including cells
\* freshly created on geometry initialisation) has been drawn during that
\* pass.
C37_NoCellLeftDirtyOrOverdue ==
  (r_hist.draws >= 1 /\ r_hist.quiet >= 0) =>
    \A q \in RCells(r_geometry) :
      ~RAt(r_cells, q).is_dirty /\ ~RAt(r_cells, q).is_overdue


(***************************************************************************)
(* MatrixRenderer: the operation counters                                  *)
(***************************************************************************)
\* C40: at the start of overdue detection in every draw(), each cell's
\* operation_counter is at most counter_threshold_high (2000), so the
\* condition that tightens the counter threshold to counter_threshold_low
\* (1000) is never satisfied. The cells between two draw() calls are the
\* cells the next overdue detection starts from.
C40_CountersStayWithinHighThreshold ==
  /\ \A q \in RCells(r_geometry) :
       RAt(r_cells, q).operation_counter <= update_counter_threshold_high
  /\ tighten(r_cells, 1,
             [counter |-> update_counter_threshold_high,
              timeout |-> redraw_timeout_high]).counter =
       update_counter_threshold_high

\* a cell that no update has touched has reached the threshold
C40_Witness ==
  \E q \in RCells(r_geometry) :
    /\ RAt(r_cells, q).operation_counter = update_counter_threshold_high
    /\ RAt(r_cells, q).is_high_quality


(***************************************************************************)
(* SDLBackend: lock() and unlock() return                                  *)
(***************************************************************************)
\* the GUI thread has taken the event the caller pushed
Processed(event) == \A i \in 1..Len(sdl.queue) : sdl.queue[i] # event

\* C39: in the SDL backend, a thread blocked in do_lock (respectively
\* do_unlock) always returns once the GUI thread has processed the
\* corresponding lock (respectively unlock) event: the GUI thread's wake-up
\* cannot be lost between the caller's predicate check and its wait, and
\* the locked flag is reset by every unlock cycle.
C39_BlockedCallerReturnsOnceProcessed ==
  /\ (sdl.main \in {"lock_block", "lock_wait"} /\ Processed("lock"))
       ~> (sdl.main = "held")
  /\ (sdl.main \in {"unlock_block", "unlock_wait"} /\ Processed("unlock"))
       ~> (sdl.main = "idle")
  /\ [](sdl.main = "idle" => ~sdl.m_locked)

====
